---- MODULE Spec2Model ----
(***************************************************************************)
(* Qubit routing core of karim1556/quantam: QuantumCircuit,                *)
(* HardwareTopology, InteractionGraph and the three mapping strategies     *)
(* (GreedyMapper, LookAheadMapper, GeneticSwapOptimizer.applyChromosome).  *)
(*                                                                         *)
(* JavaScript values are encoded as integers:                              *)
(*   physical / logical qubit ids   0, 1, 2, ...                           *)
(*   NotFound    the -1 that Array.prototype.indexOf returns               *)
(*   Undefined   the value of a missing array element or property          *)
(*   NaN         Math.min / Math.max of a number and undefined             *)
(*   Infinity    the no-path sentinel of HardwareTopology.distance         *)
(* An array `layout` of length n is a function on (-1)..(n-1): index -1 is *)
(* the property "-1" that `layout[-1] = x` creates on a JavaScript array;  *)
(* it is not an element (indexOf and [...layout] do not see it).           *)
(***************************************************************************)
EXTENDS Integers, Sequences, FiniteSets, TLC

\* ---------------------------------------------------------------- bounds
MaxQubits == 3
MaxGates == 2
MaxChromosome == 2
MaxSteps == 6
\* the configuration and the circuits GeneticSwapOptimizer.map() is run on
PopulationSize == 2
Generations == 2
TournamentSize == 2
EliteRatioPct == 50
PlateauThreshold == 2
MaxGeneticGates == 2
MaxGeneticSwaps == 1
\* the devices and the cache sizes the topology queries are run on
MaxDeviceQubits == 4
MaxGridDim == 2
MaxQueries == 1
\* a circuit on a device with spare physical qubits: the grid the UI builds
\* for 5 logical qubits
SpareQubits == 5
SpareGridDim == 3
\* the windows getUpcomingInteractions is asked for
\* runs of map() with chromosomes of more than one gene
MaxEvolveSwaps == 2
MaxEvolveGates == 2

\* sequences of distance() calls on one topology
MaxMemoQueries == 3
MaxMemoQubits == 3

MaxWindow == 3
\* the map() calls made on one circuit and one topology object, less one
MaxEarlierRuns == 2
\* the weights and the counters the cost model is run on
MaxWeight == 2
MaxCounter == 2

\* ------------------------------------------------------ JavaScript values
NotFound == 0 - 1
Undefined == 0 - 2
NaN == 0 - 3
\* what chromosome.length is when chromosome is null: reading it throws
TypeError == 0 - 4
Infinity == 1000
NegInfinity == 0 - Infinity

DefaultQubits == 5
DefaultGridDim == 3
LookAheadWindow == 3

Min(a, b) == IF a <= b THEN a ELSE b
Max(a, b) == IF a >= b THEN a ELSE b

\* a faulty variant of MinusOne: the penalty line without its "- 1"
MinusNothing(a) == a

\* a - 1 and a + b on doubles: Infinity - 1 and Infinity + b are Infinity
MinusOne(a) == IF a = Infinity THEN Infinity ELSE a - 1
Plus(a, b) == IF a = Infinity \/ b = Infinity THEN Infinity ELSE a + b

\* F(e), with e evaluated once before F is applied
Strict(F(_), e) == CHOOSE y \in {F(x) : x \in {e}} : TRUE

\* ------------------------------------------------------ HardwareTopology
\* params.qubits || 5, params.rows || 3, params.cols || 3: a missing or zero
\* parameter is falsy and takes the default.
OrDefault(v, d) == IF v = 0 THEN d ELSE v

LnnGraph(n) ==
  [i \in 0..(n - 1) |->
     (IF i > 0 THEN <<i - 1>> ELSE <<>>) \o (IF i < n - 1 THEN <<i + 1>> ELSE <<>>)]

\* a faulty variant of GridGraph: the left and right neighbours are taken by
\* id alone, which joins the end of a row to the start of the next
GridGraphWrapping(rows, cols) ==
  [id \in 0..(rows * cols - 1) |->
     LET r == id \div cols
     IN (IF id > 0 THEN <<id - 1>> ELSE <<>>)
        \o (IF id < rows * cols - 1 THEN <<id + 1>> ELSE <<>>)
        \o (IF r > 0 THEN <<id - cols>> ELSE <<>>)
        \o (IF r < rows - 1 THEN <<id + cols>> ELSE <<>>)]

GridGraph(rows, cols) ==
  [id \in 0..(rows * cols - 1) |->
     LET r == id \div cols
         c == id % cols
     IN (IF c > 0 THEN <<id - 1>> ELSE <<>>)
        \o (IF c < cols - 1 THEN <<id + 1>> ELSE <<>>)
        \o (IF r > 0 THEN <<id - cols>> ELSE <<>>)
        \o (IF r < rows - 1 THEN <<id + cols>> ELSE <<>>)]

\* graph[0] = [] is created even when n <= 1
StarGraph(n) ==
  [i \in 0..(Max(n, 1) - 1) |->
     IF i = 0 THEN [k \in 1..(n - 1) |-> k] ELSE <<0>>]

EmptyGraph == [i \in {} |-> <<>>]

buildGraph(type, params) ==
  IF type = "lnn" THEN LnnGraph(OrDefault(params.qubits, DefaultQubits))
  ELSE IF type = "grid2d"
    THEN GridGraph(OrDefault(params.rows, DefaultGridDim), OrDefault(params.cols, DefaultGridDim))
  ELSE IF type = "star" THEN StarGraph(OrDefault(params.qubits, DefaultQubits))
  ELSE EmptyGraph

\* this.graph[node] || []
Neighbors(g, node) == IF node \in DOMAIN g THEN g[node] ELSE <<>>

InSeq(s, x) == \E i \in 1..Len(s) : s[i] = x

\* this.graph[q1]?.includes(q2) || false
isConnected(g, q1, q2) == InSeq(Neighbors(g, q1), q2)

\* a faulty variant of CacheKey: `${Math.min(q1, q2)}`, the larger id is left
\* out of the key
CacheKeyMinOnly(q1, q2) ==
  IF q1 = Undefined \/ q2 = Undefined THEN <<NaN, NaN>>
  ELSE <<Min(q1, q2), Min(q1, q2)>>

\* `${Math.min(q1, q2)}-${Math.max(q1, q2)}`
CacheKey(q1, q2) ==
  IF q1 = Undefined \/ q2 = Undefined THEN <<NaN, NaN>>
  ELSE <<Min(q1, q2), Max(q1, q2)>>

Unvisited(g, node, visited) ==
  SelectSeq(Neighbors(g, node), LAMBDA x : x \notin visited)

\* the while loop of distance(): queue holds <<node, dist>>
RECURSIVE DistanceLoop(_, _, _, _)
DistanceLoop(g, queue, visited, q2) ==
  IF queue = <<>> THEN Infinity
  ELSE LET node == Head(queue)[1]
           dist == Head(queue)[2]
       IN IF node = q2 THEN dist
          ELSE IF node \in visited THEN DistanceLoop(g, Tail(queue), visited, q2)
          ELSE LET vis == visited \cup {node}
                   nb == Unvisited(g, node, vis)
               IN Strict(LAMBDA a : DistanceLoop(g, a[1], a[2], q2),
                         <<Tail(queue) \o [i \in 1..Len(nb) |-> <<nb[i], dist + 1>>], vis>>)

\* a faulty variant of BfsDistance: -1 instead of Infinity when no path exists
BfsDistanceOrMinusOne(g, q1, q2) ==
  Strict(LAMBDA d : IF d = Infinity THEN NotFound ELSE d,
         DistanceLoop(g, <<<<q1, 0>>>>, {}, q2))

BfsDistance(g, q1, q2) == DistanceLoop(g, <<<<q1, 0>>>>, {}, q2)

\* a faulty variant of distance: the BFS counts vertices instead of hops
distanceInVertices(g, cache, q1, q2) ==
  IF CacheKey(q1, q2) \in DOMAIN cache THEN cache[CacheKey(q1, q2)]
  ELSE Plus(BfsDistance(g, q1, q2), 1)

\* distance(q1, q2) on a topology whose distanceCache is `cache`
distance(g, cache, q1, q2) ==
  IF CacheKey(q1, q2) \in DOMAIN cache THEN cache[CacheKey(q1, q2)]
  ELSE BfsDistance(g, q1, q2)

\* a faulty variant of CacheAfter: the hop count is stored one too high
CacheAfterOneTooHigh(g, cache, q1, q2) ==
  IF CacheKey(q1, q2) \in DOMAIN cache THEN cache
  ELSE cache @@ (CacheKey(q1, q2) :> Plus(BfsDistance(g, q1, q2), 1))

\* the distanceCache after the call distance(q1, q2)
CacheAfter(g, cache, q1, q2) ==
  IF CacheKey(q1, q2) \in DOMAIN cache THEN cache
  ELSE cache @@ (CacheKey(q1, q2) :> BfsDistance(g, q1, q2))

\* the while loop of getShortestPath(): queue holds <<node, path>>
RECURSIVE PathLoop(_, _, _, _)
PathLoop(g, queue, visited, q2) ==
  IF queue = <<>> THEN <<>>
  ELSE LET node == Head(queue)[1]
           path == Head(queue)[2]
       IN IF node = q2 THEN path
          ELSE IF node \in visited THEN PathLoop(g, Tail(queue), visited, q2)
          ELSE LET vis == visited \cup {node}
                   nb == Unvisited(g, node, vis)
               IN Strict(LAMBDA a : PathLoop(g, a[1], a[2], q2),
                         <<Tail(queue) \o [i \in 1..Len(nb) |-> <<nb[i], Append(path, nb[i])>>],
                           vis>>)

\* a faulty variant of getShortestPath: the queue starts as [[q1, []]], so the
\* path misses its first vertex
pathWithoutStart(g, q1, q2) == PathLoop(g, <<<<q1, <<>>>>>>, {}, q2)

getShortestPath(g, q1, q2) == PathLoop(g, <<<<q1, <<q1>>>>>>, {}, q2)

\* Object.keys(graph) in ascending order, then graph[q1] in list order,
\* keeping q1 < q2 (getValidSwaps, and the candidates of findBestSwap)
RECURSIVE EdgesFrom(_, _)
EdgesFrom(g, q1) ==
  IF q1 \notin DOMAIN g THEN <<>>
  ELSE LET up == SelectSeq(g[q1], LAMBDA q2 : q1 < q2)
       IN [i \in 1..Len(up) |-> <<q1, up[i]>>] \o EdgesFrom(g, q1 + 1)

getValidSwaps(g) == EdgesFrom(g, 0)

\* ------------------------------------------------------------ QuantumCircuit
\* new QuantumCircuit(nQubits): no validation of nQubits
NewQuantumCircuit(n) == [nQubits |-> n, gates |-> <<>>]

\* addGate(type, qubits): no validation of the operands. The gate's params
\* and id fields are never read by a mapper and are left out.
addGateTo(c, type, qubits) ==
  [c EXCEPT !.gates = Append(@, [type |-> type, qubits |-> qubits])]

\* --------------------------------------------------------- InteractionGraph
\* 1 / (1 + (i - currentGateIdx)), scaled by 6 = lcm(1, 2, 3) so that the
\* weights of a window of 3 are the integers 6, 3, 2.  Scores are compared,
\* never reported, and for distances up to 3 the doubles the code computes
\* order exactly as these integers do.
ScaledWeight(k) == 6 \div (1 + k)

RECURSIVE UpcomingFrom(_, _, _, _)
UpcomingFrom(gates, i, endIdx, currentGateIdx) ==
  IF i >= endIdx THEN <<>>
  ELSE (IF Len(gates[i + 1].qubits) = 2
          THEN <<[qubits |-> gates[i + 1].qubits,
                  distance |-> i - currentGateIdx,
                  weight |-> ScaledWeight(i - currentGateIdx)]>>
          ELSE <<>>)
       \o UpcomingFrom(gates, i + 1, endIdx, currentGateIdx)

\* a faulty variant of getUpcomingInteractions: the loop runs while i <= endIdx,
\* one gate past the window
getUpcomingInteractionsPastWindow(c, currentGateIdx, windowSize) ==
  UpcomingFrom(c.gates, currentGateIdx,
               Min(currentGateIdx + windowSize + 1, Len(c.gates)), currentGateIdx)

getUpcomingInteractions(c, currentGateIdx, windowSize) ==
  UpcomingFrom(c.gates, currentGateIdx,
               Min(currentGateIdx + windowSize, Len(c.gates)), currentGateIdx)

\* buildGraph(): the Map from `${q1}-${q2}`, q1 <= q2, to the count and the
\* first and last gate index of the two-qubit gates on that pair
RECURSIVE InteractionEdges(_, _, _)
InteractionEdges(gates, gateIdx, edges) ==
  IF gateIdx >= Len(gates) THEN edges
  ELSE LET gate == gates[gateIdx + 1]
       IN IF Len(gate.qubits) = 2
            THEN LET key == <<Min(gate.qubits[1], gate.qubits[2]),
                              Max(gate.qubits[1], gate.qubits[2])>>
                     edge == IF key \in DOMAIN edges THEN edges[key]
                             ELSE [count |-> 0, firstSeen |-> gateIdx, lastSeen |-> gateIdx]
                     seen == [edge EXCEPT !.count = @ + 1, !.lastSeen = gateIdx]
                 IN Strict(LAMBDA e : InteractionEdges(gates, gateIdx + 1, e),
                           [k \in DOMAIN edges \cup {key} |->
                              IF k = key THEN seen ELSE edges[k]])
            ELSE InteractionEdges(gates, gateIdx + 1, edges)

buildInteractionGraph(c) == InteractionEdges(c.gates, 0, [k \in {} |-> 0])

\* ------------------------------------------------------------------ layout
\* Array.from({ length: nQubits }, (_, i) => i); no "-1" property yet
IdentityLayout(n) == [i \in (0 - 1)..(n - 1) |-> IF i = NotFound THEN Undefined ELSE i]

\* layout[i]: a missing element reads as undefined
At(l, i) == IF i \in DOMAIN l THEN l[i] ELSE Undefined

Elements(l) == (DOMAIN l) \ {NotFound}

\* layout.indexOf(v): the first element equal to v, else -1
indexOf(l, v) ==
  IF \E i \in Elements(l) : l[i] = v
    THEN CHOOSE i \in Elements(l) : l[i] = v /\ \A j \in Elements(l) : l[j] = v => i <= j
    ELSE NotFound

\* [layout[a], layout[b]] = [layout[b], layout[a]]; a or b may be -1
SwapEntries(l, a, b) == [l EXCEPT ![a] = l[b], ![b] = l[a]]

\* [...layout]: the elements, without the "-1" property
Snapshot(l) == [i \in Elements(l) |-> l[i]]

\* a fresh array holding the elements of l (its "-1" property is undefined)
CopyLayout(l) == [l EXCEPT ![NotFound] = Undefined]

\* ---------------------------------------------------------- LookAheadMapper
\* score -= dist * weight, on doubles: anything minus Infinity is -Infinity
ScoreMinus(score, dist, weight) ==
  IF score = NegInfinity \/ dist = Infinity THEN NegInfinity ELSE score - dist * weight

\* upcoming.forEach(...) of findBestSwap: the score and the cache it leaves
RECURSIVE ScoreLoop(_, _, _, _, _)
ScoreLoop(g, cache, testLayout, upcoming, score) ==
  IF upcoming = <<>> THEN [score |-> score, cache |-> cache]
  ELSE LET a == At(testLayout, Head(upcoming).qubits[1])
           b == At(testLayout, Head(upcoming).qubits[2])
       IN Strict(LAMBDA n : ScoreLoop(g, n[1], testLayout, Tail(upcoming), n[2]),
                 <<CacheAfter(g, cache, a, b),
                   ScoreMinus(score, distance(g, cache, a, b), Head(upcoming).weight)>>)

\* the candidate loop of findBestSwap; best.swap = <<>> is null
RECURSIVE CandidateLoop(_, _, _, _, _, _)
CandidateLoop(g, cache, l, upcoming, edges, best) ==
  IF edges = <<>> THEN [swap |-> best.swap, cache |-> cache]
  ELSE LET q1 == Head(edges)[1]
           q2 == Head(edges)[2]
           copy == CopyLayout(l)
           testLayout == SwapEntries(copy, indexOf(copy, q1), indexOf(copy, q2))
       IN Strict(LAMBDA r :
                   Strict(LAMBDA better :
                            CandidateLoop(g, r.cache, l, upcoming, Tail(edges), better),
                          IF r.score > best.score
                            THEN [swap |-> Head(edges), score |-> r.score]
                            ELSE best),
                 ScoreLoop(g, cache, testLayout, upcoming, 0))

\* findBestSwap(layout, currentGateIdx): [swap, cache]
findBestSwap(c, g, cache, l, currentGateIdx) ==
  CandidateLoop(g, cache, l, getUpcomingInteractions(c, currentGateIdx, LookAheadWindow),
                getValidSwaps(g), [swap |-> <<>>, score |-> NegInfinity])

\* ------------------------------------------------------ GeneticSwapOptimizer
\* the constructor's defaults; eliteRatio is kept in percent
DefaultPopulationSize == 30
DefaultGenerations == 50
DefaultTournamentSize == 3
DefaultEliteRatioPct == 20
DefaultMaxSwaps == 8
DefaultPlateauThreshold == 10

\* this.config = { populationSize: config.populationSize || 30, ... }; the
\* two mutation rates only decide how likely a child is mutated and are
\* left out: a child is mutated or not
NewConfig(cfg) ==
  [populationSize |-> OrDefault(cfg.populationSize, DefaultPopulationSize),
   generations |-> OrDefault(cfg.generations, DefaultGenerations),
   tournamentSize |-> OrDefault(cfg.tournamentSize, DefaultTournamentSize),
   eliteRatioPct |-> OrDefault(cfg.eliteRatioPct, DefaultEliteRatioPct),
   maxSwapsPerChromosome |-> OrDefault(cfg.maxSwapsPerChromosome, DefaultMaxSwaps),
   plateauThreshold |-> OrDefault(cfg.plateauThreshold, DefaultPlateauThreshold)]

\* validSwaps[Math.floor(Math.random() * validSwaps.length)]: any valid swap,
\* and undefined, written <<>>, when the device has no edge
UndefinedGene == <<>>

GeneChoices(g) ==
  LET swaps == getValidSwaps(g)
  IN IF swaps = <<>> THEN {UndefinedGene} ELSE {swaps[i] : i \in 1..Len(swaps)}

\* the populations initializePopulation() can return: populationSize
\* chromosomes of 1..maxSwapsPerChromosome random genes
InitialChromosomes(g, cfg) ==
  UNION {[1..len -> GeneChoices(g)] : len \in 1..cfg.maxSwapsPerChromosome}

initializePopulation(g, cfg) == [1..cfg.populationSize -> InitialChromosomes(g, cfg)]

\* a faulty variant of chromosomeKey: chromosome.map(([a]) => `${a}`), the
\* second qubit of every gene is left out of the key
RECURSIVE chromosomeKeyFirstQubitOnly(_)
chromosomeKeyFirstQubitOnly(chrom) ==
  IF chrom = <<>> THEN <<>>
  ELSE <<Head(chrom)[1]>>
         \o (IF Len(chrom) > 1 THEN <<",">> ELSE <<>>) \o chromosomeKeyFirstQubitOnly(Tail(chrom))

\* chromosome.map(([a, b]) => `${a}-${b}`).join(','): the text as the
\* sequence of its tokens a, "-", b, ",", ...; destructuring an undefined
\* gene throws, which KeyThrows says
RECURSIVE chromosomeKey(_)
chromosomeKey(chrom) ==
  IF chrom = <<>> THEN <<>>
  ELSE <<Head(chrom)[1], "-", Head(chrom)[2]>>
         \o (IF Len(chrom) > 1 THEN <<",">> ELSE <<>>) \o chromosomeKey(Tail(chrom))

KeyThrows(chrom) == \E i \in 1..Len(chrom) : chrom[i] = UndefinedGene

\* a faulty variant of SwapStepAt: `depth: ++depth`, the counter after the
\* increment
SwapStepAtPreIncrement(swapQ1, swapQ2, logQ1, logQ2, newLayout, d) ==
  [type |-> "swap", physical |-> <<swapQ1, swapQ2>>, logical |-> <<logQ1, logQ2>>,
   layout |-> Snapshot(newLayout), inserted |-> TRUE, depth |-> d + 1]

\* the steps a replay pushes, d being the depth counter when it does
SwapStepAt(swapQ1, swapQ2, logQ1, logQ2, newLayout, d) ==
  [type |-> "swap", physical |-> <<swapQ1, swapQ2>>, logical |-> <<logQ1, logQ2>>,
   layout |-> Snapshot(newLayout), inserted |-> TRUE, depth |-> d]

\* a faulty variant of NativeStepAt: the step records the gate's logical
\* qubits where it should record their physical images
NativeStepAtLogical(gate, l, d) ==
  [type |-> gate.type, physical |-> gate.qubits, logical |-> gate.qubits,
   layout |-> Snapshot(l), inserted |-> FALSE, depth |-> d]

\* the Native step; the source names its field of physical images `qubits`,
\* written `physical` here as in the Swap step
NativeStepAt(gate, l, d) ==
  [type |-> gate.type,
   physical |-> [i \in 1..Len(gate.qubits) |-> At(l, gate.qubits[i])],
   logical |-> gate.qubits,
   layout |-> Snapshot(l), inserted |-> FALSE, depth |-> d]

\* applyChromosome(chromosome) as one call, for evaluateFitness; r holds the
\* locals layout, steps, insertedSwaps, depth, distancePenalty, swapIndex
\* and the topology's distanceCache
RECURSIVE ChromosomeWhile(_, _, _, _, _)
ChromosomeWhile(g, chrom, c, t, r) ==
  IF isConnected(g, At(r.layout, c), At(r.layout, t)) \/ r.swapIndex >= Len(chrom) THEN r
  ELSE LET gene == chrom[r.swapIndex + 1]
           logQ1 == indexOf(r.layout, gene[1])
           logQ2 == indexOf(r.layout, gene[2])
           newLayout == SwapEntries(r.layout, logQ1, logQ2)
       IN Strict(LAMBDA n : ChromosomeWhile(g, chrom, c, t, n),
            IF logQ1 # NotFound /\ logQ2 # NotFound
              THEN [r EXCEPT !.layout = newLayout,
                             !.steps = Append(@, SwapStepAt(gene[1], gene[2], logQ1, logQ2,
                                                            newLayout, r.depth)),
                             !.depth = @ + 1,
                             !.insertedSwaps = @ + 1,
                             !.swapIndex = @ + 1]
              ELSE [r EXCEPT !.swapIndex = @ + 1])

\* the penalty of a two-qubit gate, added once its while loop is over
AddPenalty(g, gate, w) ==
  LET physC == At(w.layout, gate.qubits[1])
      physT == At(w.layout, gate.qubits[2])
  IN [w EXCEPT !.distancePenalty = Plus(@, MinusOne(distance(g, w.cache, physC, physT))),
               !.cache = CacheAfter(g, w.cache, physC, physT)]

PushNative(gate, p) ==
  [p EXCEPT !.steps = Append(@, NativeStepAt(gate, p.layout, p.depth)),
            !.depth = @ + 1]

RECURSIVE ChromosomeForEach(_, _, _, _)
ChromosomeForEach(g, chrom, gates, r) ==
  IF gates = <<>> THEN r
  ELSE LET gate == Head(gates)
       IN IF Len(gate.qubits) = 2
            THEN Strict(LAMBDA w :
                          Strict(LAMBDA p :
                                   Strict(LAMBDA n : ChromosomeForEach(g, chrom, Tail(gates), n),
                                          PushNative(gate, p)),
                                 AddPenalty(g, gate, w)),
                        ChromosomeWhile(g, chrom, gate.qubits[1], gate.qubits[2], r))
            ELSE Strict(LAMBDA n : ChromosomeForEach(g, chrom, Tail(gates), n),
                        PushNative(gate, r))

applyChromosome(c, g, cache, chrom) ==
  ChromosomeForEach(g, chrom, c.gates,
                    [layout |-> IdentityLayout(c.nQubits), steps |-> <<>>,
                     insertedSwaps |-> 0, depth |-> 0, distancePenalty |-> 0,
                     swapIndex |-> 0, cache |-> cache])

\* -(result.insertedSwaps * 10 + result.depth + result.distancePenalty * 3)
Fitness(r) ==
  IF r.distancePenalty = Infinity THEN NegInfinity
  ELSE 0 - (r.insertedSwaps * 10 + r.depth + r.distancePenalty * 3)

evaluateFitness(c, g, cache, chrom) == Fitness(applyChromosome(c, g, cache, chrom))

\* population.map(...) of map(): each chromosome with its fitness, read from
\* the fitnessCache or computed by evaluateFitness and stored; e holds
\* evaluated, fitnessCache and the topology's distanceCache
RECURSIVE EvaluateLoop(_, _, _, _)
EvaluateLoop(c, g, pop, e) ==
  IF pop = <<>> THEN e
  ELSE LET chrom == Head(pop)
           cacheKey == chromosomeKey(chrom)
           Entry(fitness) == [chromosome |-> chrom, fitness |-> fitness]
       IN IF cacheKey \in DOMAIN e.fitnessCache
            THEN Strict(LAMBDA n : EvaluateLoop(c, g, Tail(pop), n),
                        [e EXCEPT !.evaluated = Append(@, Entry(e.fitnessCache[cacheKey]))])
            ELSE Strict(LAMBDA r :
                          Strict(LAMBDA n : EvaluateLoop(c, g, Tail(pop), n),
                                 [evaluated |-> Append(e.evaluated, Entry(Fitness(r))),
                                  fitnessCache |-> e.fitnessCache @@ (cacheKey :> Fitness(r)),
                                  cache |-> r.cache]),
                        applyChromosome(c, g, e.cache, chrom))

\* a faulty variant of SortByFitness: the comparator is a.fitness - b.fitness,
\* which sorts by ascending fitness
SortByFitnessAscending(s) ==
  LET Place(i) ==
        1 + Cardinality({j \in 1..Len(s) :
                           \/ s[j].fitness < s[i].fitness
                           \/ s[j].fitness = s[i].fitness /\ j < i})
  IN [k \in 1..Len(s) |-> s[CHOOSE i \in 1..Len(s) : Place(i) = k]]

\* sort((a, b) => b.fitness - a.fitness): stable, by descending fitness (the
\* difference of two equal infinities is NaN, which sort takes as 0); an
\* entry's place is 1 + the number of entries that go before it
SortByFitness(s) ==
  LET Place(i) ==
        1 + Cardinality({j \in 1..Len(s) :
                           \/ s[j].fitness > s[i].fitness
                           \/ s[j].fitness = s[i].fitness /\ j < i})
  IN [k \in 1..Len(s) |-> s[CHOOSE i \in 1..Len(s) : Place(i) = k]]

\* tournamentSelect(evaluated), picks being its tournamentSize random indices
tournamentSelect(ev, picks) ==
  Strict(LAMBDA tournament : SortByFitness(tournament)[1].chromosome,
         [i \in 1..Len(picks) |-> ev[picks[i]]])

\* crossover(p1, p2), point being Math.floor(Math.random() * min length)
crossover(p1, p2, point) ==
  IF Len(p1) = 0 \/ Len(p2) = 0 THEN (IF Len(p1) > 0 THEN p1 ELSE p2)
  ELSE SubSeq(p1, 1, point) \o SubSeq(p2, point + 1, Len(p2))

\* mutate(chromosome): mutationType < 0.4 is kind "replace", < 0.7 "append",
\* else "delete"; idx and gene are the random index and random valid swap
mutate(chrom, cfg, kind, idx, gene) ==
  IF kind = "replace" /\ Len(chrom) > 0
    THEN [chrom EXCEPT ![idx + 1] = gene]
  ELSE IF kind \in {"replace", "append"} /\ Len(chrom) < cfg.maxSwapsPerChromosome
    THEN Append(chrom, gene)
  ELSE IF Len(chrom) > 1
    THEN SubSeq(chrom, 1, idx) \o SubSeq(chrom, idx + 2, Len(chrom))
  ELSE chrom

\* the children one pass of the while loop of map() can push: two
\* tournament winners crossed over, then mutated or not
Offspring(ev, cfg, g) ==
  LET parents == {tournamentSelect(ev, picks) :
                    picks \in [1..cfg.tournamentSize -> 1..Len(ev)]}
      crossed == UNION {{crossover(pp[1], pp[2], point) :
                           point \in 0..Max(Min(Len(pp[1]), Len(pp[2])) - 1, 0)} :
                        pp \in parents \X parents}
  IN crossed \cup
       UNION {{mutate(child, cfg, kind, idx, gene) :
                 kind \in {"replace", "append", "delete"},
                 idx \in 0..Max(Len(child) - 1, 0),
                 gene \in GeneChoices(g)} : child \in crossed}

\* ------------------------------------------------------------------- state
VARIABLES
  pc,               \* "new" | "circuit" | "hardware" | "map" | "done"
  circuit,          \* QuantumCircuit: nQubits, gates
  hardware,         \* HardwareTopology: type, params, graph
  distanceCache,    \* HardwareTopology.distanceCache: key -> hop count
  mapper,           \* "none" | "greedy" | "lookahead" | "genetic"
  chromosome,       \* the argument of applyChromosome: the genes read so far
  chromosomeLength, \* chromosome.length
  layout,           \* the layout array of the running map()
  steps,
  insertedSwaps,
  depth,
  distancePenalty,
  swapIndex,        \* the cursor of applyChromosome
  gateIdx,          \* index of the gate circuit.gates.forEach is at
  result,           \* the MappingResult returned, <<>> before
  config,           \* GeneticSwapOptimizer.config
  fitnessCache,     \* GeneticSwapOptimizer.fitnessCache: key -> fitness
  population,       \* the locals of GeneticSwapOptimizer.map():
  evaluated,
  newPopulation,
  bestEver,         \* null, written <<>>, or a chromosome c, written <<c>>
  bestEverFitness,
  plateauCounter,
  gen,
  costConfig,       \* the config argument of new CostModel(config)
  costModel,        \* CostModel: alpha, beta, gamma; <<>> before construction
  costResult,       \* the result last passed to evaluate(), as the call leaves it
  cost,             \* what evaluate() last returned, Undefined before
  explanation,      \* what explain() last returned, <<>> before
  interactionGraph, \* InteractionGraph.graph: key -> count, firstSeen, lastSeen
  upcoming,         \* the last getUpcomingInteractions call: arguments and result
  earlier,          \* what the map() calls made before on this circuit and
                    \* topology returned: mapper, chromosome, result
  ui,               \* the React state of the mounted component and its worker
  queried,          \* the distance() calls made one by one: their number, the last
                    \* call's arguments, what it returned, whether line 56 returned it
  bred              \* the last call of crossover() or mutate(): the arrays passed,
                    \* the same arrays after the call, the random draws, the return

vars == <<pc, circuit, hardware, distanceCache, mapper, chromosome, chromosomeLength,
          layout, steps, insertedSwaps, depth, distancePenalty, swapIndex, gateIdx, result,
          config, fitnessCache, population, evaluated, newPopulation, bestEver,
          bestEverFitness, plateauCounter, gen,
          costConfig, costModel, costResult, cost, explanation,
          interactionGraph, upcoming, earlier, ui, queried, bred>>

sessionVars == <<interactionGraph, upcoming, earlier, ui, queried, bred>>

costVars == <<costConfig, costModel, costResult, cost, explanation>>

replayVars == <<layout, steps, insertedSwaps, depth, distancePenalty, swapIndex, gateIdx>>

geneticVars == <<config, fitnessCache, population, evaluated, newPopulation, bestEver,
                 bestEverFitness, plateauCounter, gen>>

NoCache == [k \in {} |-> 0]

Init ==
  /\ pc = "new"
  /\ circuit = NewQuantumCircuit(0)
  /\ hardware = [type |-> "", params |-> [qubits |-> 0, rows |-> 0, cols |-> 0],
                 graph |-> EmptyGraph]
  /\ distanceCache = NoCache
  /\ mapper = "none"
  /\ chromosome = <<>>
  /\ chromosomeLength = 0
  /\ layout = IdentityLayout(0)
  /\ steps = <<>>
  /\ insertedSwaps = 0
  /\ depth = 0
  /\ distancePenalty = 0
  /\ swapIndex = 0
  /\ gateIdx = 0
  /\ result = <<>>
  /\ config = NewConfig([populationSize |-> 0, generations |-> 0, tournamentSize |-> 0,
                         eliteRatioPct |-> 0, maxSwapsPerChromosome |-> 0,
                         plateauThreshold |-> 0])
  /\ fitnessCache = NoCache
  /\ population = <<>>
  /\ evaluated = <<>>
  /\ newPopulation = <<>>
  /\ bestEver = <<>>
  /\ bestEverFitness = NegInfinity
  /\ plateauCounter = 0
  /\ gen = 0
  /\ costConfig = <<>>
  /\ costModel = <<>>
  /\ costResult = <<>>
  /\ cost = Undefined
  /\ explanation = <<>>
  /\ interactionGraph = <<>>
  /\ upcoming = <<>>
  /\ earlier = {}
  /\ ui = [component |-> "", results |-> <<>>, running |-> FALSE, activeMapper |-> "genetic",
           worker |-> "none", timer |-> "none", workerError |-> FALSE]
  /\ queried = [count |-> 0, q1 |-> Undefined, q2 |-> Undefined, returned |-> Undefined,
                hit |-> FALSE]
  /\ bred = [op |-> "none", args |-> <<>>, after |-> <<>>, draw |-> <<>>, returned |-> <<>>]

\* ------------------------------------------------------------ construction
\* new QuantumCircuit(n)
NewCircuit(n) ==
  /\ pc = "new"
  /\ circuit' = NewQuantumCircuit(n)
  /\ pc' = "circuit"
  /\ UNCHANGED <<hardware, distanceCache, mapper, chromosome, chromosomeLength, result>>
  /\ UNCHANGED replayVars
  /\ UNCHANGED geneticVars
  /\ UNCHANGED costVars
  /\ UNCHANGED sessionVars

\* circuit.addGate(type, qubits)
AddGate(type, qubits) ==
  /\ pc = "circuit"
  /\ Len(circuit.gates) < MaxGates
  /\ circuit' = addGateTo(circuit, type, qubits)
  /\ UNCHANGED <<pc, hardware, distanceCache, mapper, chromosome, chromosomeLength, result>>
  /\ UNCHANGED replayVars
  /\ UNCHANGED geneticVars
  /\ UNCHANGED costVars
  /\ UNCHANGED sessionVars

\* new HardwareTopology(type, params)
NewTopology(type, params) ==
  /\ pc = "circuit"
  /\ hardware' = [type |-> type, params |-> params, graph |-> buildGraph(type, params)]
  /\ distanceCache' = NoCache
  /\ pc' = "hardware"
  /\ UNCHANGED <<circuit, mapper, chromosome, chromosomeLength, result>>
  /\ UNCHANGED replayVars
  /\ UNCHANGED geneticVars
  /\ UNCHANGED costVars
  /\ UNCHANGED sessionVars

\* the first lines of map() / applyChromosome(): fresh layout and counters
BeginReplay ==
  /\ layout' = IdentityLayout(circuit.nQubits)
  /\ steps' = <<>>
  /\ insertedSwaps' = 0
  /\ depth' = 0
  /\ distancePenalty' = 0
  /\ swapIndex' = 0
  /\ gateIdx' = 0

\* new GreedyMapper(circuit, hardware).map()
GreedyMap ==
  /\ pc = "hardware"
  /\ mapper' = "greedy"
  /\ pc' = "map"
  /\ BeginReplay
  /\ UNCHANGED <<circuit, hardware, distanceCache, chromosome, chromosomeLength, result>>
  /\ UNCHANGED geneticVars
  /\ UNCHANGED costVars
  /\ UNCHANGED sessionVars

\* new LookAheadMapper(circuit, hardware, 3).map()
LookAheadMap ==
  /\ pc = "hardware"
  /\ mapper' = "lookahead"
  /\ pc' = "map"
  /\ BeginReplay
  /\ UNCHANGED <<circuit, hardware, distanceCache, chromosome, chromosomeLength, result>>
  /\ UNCHANGED geneticVars
  /\ UNCHANGED costVars
  /\ UNCHANGED sessionVars

\* new GeneticSwapOptimizer(circuit, hardware).applyChromosome(c), for a
\* chromosome c of len genes drawn from getValidSwaps().  applyChromosome
\* reads c.length and, once each and in cursor order, the genes c[swapIndex]:
\* each gene is drawn when the cursor reads it, so `chromosome` holds the
\* genes read so far and `chromosomeLength` the length of c.
ApplyChromosome(len) ==
  /\ pc = "hardware"
  /\ len > 0 => getValidSwaps(hardware.graph) # <<>>
  /\ mapper' = "genetic"
  /\ chromosome' = <<>>
  /\ chromosomeLength' = len
  /\ pc' = "map"
  /\ BeginReplay
  /\ UNCHANGED <<circuit, hardware, distanceCache, result>>
  /\ UNCHANGED geneticVars
  /\ UNCHANGED costVars
  /\ UNCHANGED sessionVars

\* ------------------------------------------------------------- the replay
AtGate == pc = "map" /\ gateIdx < Len(circuit.gates)
\* a faulty variant of Gate: the gates are walked from the last to the first
GateFromEnd == circuit.gates[Len(circuit.gates) - gateIdx]
\* the gate forEach is at
Gate == circuit.gates[gateIdx + 1]
TwoQubit == Len(Gate.qubits) = 2
PhysC == At(layout, Gate.qubits[1])
PhysT == At(layout, Gate.qubits[2])
Adjacent == isConnected(hardware.graph, PhysC, PhysT)

SwapStep(swapQ1, swapQ2, logQ1, logQ2, newLayout) ==
  SwapStepAt(swapQ1, swapQ2, logQ1, logQ2, newLayout, depth)

\* a faulty variant of InsertSwap: the swap is applied and pushed, but
\* insertedSwaps++ is missing
InsertSwapUncounted(swapQ1, swapQ2) ==
  LET logQ1 == indexOf(layout, swapQ1)
      logQ2 == indexOf(layout, swapQ2)
      newLayout == SwapEntries(layout, logQ1, logQ2)
  IN /\ layout' = newLayout
     /\ steps' = Append(steps, SwapStep(swapQ1, swapQ2, logQ1, logQ2, newLayout))
     /\ depth' = depth + 1
     /\ insertedSwaps' = insertedSwaps

\* a faulty variant of InsertSwap: the step is pushed with `layout: layout`,
\* the array itself, so every step pushed so far shows the layout as it is now
InsertSwapAliased(swapQ1, swapQ2) ==
  LET logQ1 == indexOf(layout, swapQ1)
      logQ2 == indexOf(layout, swapQ2)
      newLayout == SwapEntries(layout, logQ1, logQ2)
  IN /\ layout' = newLayout
     /\ steps' = Append([k \in 1..Len(steps) |->
                           [steps[k] EXCEPT !.layout = Snapshot(newLayout)]],
                        SwapStep(swapQ1, swapQ2, logQ1, logQ2, newLayout))
     /\ depth' = depth + 1
     /\ insertedSwaps' = insertedSwaps + 1

\* the body shared by the three swap loops: exchange the occupants of the
\* physical qubits swapQ1 and swapQ2, push the Swap step, count it
InsertSwap(swapQ1, swapQ2) ==
  LET logQ1 == indexOf(layout, swapQ1)
      logQ2 == indexOf(layout, swapQ2)
      newLayout == SwapEntries(layout, logQ1, logQ2)
  IN /\ layout' = newLayout
     /\ steps' = Append(steps, SwapStep(swapQ1, swapQ2, logQ1, logQ2, newLayout))
     /\ depth' = depth + 1
     /\ insertedSwaps' = insertedSwaps + 1

\* one iteration of GreedyMapper's while loop
\* a faulty variant of GreedyPath: the "path" is the pair of the gate's
\* images themselves, so the swap is made on them directly
GreedyPathEndpoints == <<PhysC, PhysT>>

GreedyPath == getShortestPath(hardware.graph, PhysC, PhysT)

GreedySwap ==
  /\ AtGate /\ mapper = "greedy" /\ TwoQubit
  /\ ~Adjacent
  /\ Len(steps) < MaxSteps
  /\ LET path == GreedyPath
     IN /\ Len(path) >= 2
        /\ InsertSwap(path[1], path[2])
  /\ UNCHANGED <<pc, circuit, hardware, distanceCache, mapper, chromosome,
                 chromosomeLength, swapIndex, gateIdx, distancePenalty, result>>
  /\ UNCHANGED geneticVars
  /\ UNCHANGED costVars
  /\ UNCHANGED sessionVars

\* one iteration of LookAheadMapper's while loop
BestSwap == findBestSwap(circuit, hardware.graph, distanceCache, layout, gateIdx)

LookAheadSwap ==
  /\ AtGate /\ mapper = "lookahead" /\ TwoQubit
  /\ ~Adjacent
  /\ Len(steps) < MaxSteps
  /\ \E best \in {BestSwap} :
       /\ best.swap # <<>>
       /\ InsertSwap(best.swap[1], best.swap[2])
       /\ distanceCache' = best.cache
  /\ UNCHANGED <<pc, circuit, hardware, mapper, chromosome, chromosomeLength, swapIndex,
                 gateIdx, distancePenalty, result>>
  /\ UNCHANGED geneticVars
  /\ UNCHANGED costVars
  /\ UNCHANGED sessionVars

\* one iteration of applyChromosome's while loop: the gene under the cursor
\* is applied when both its physical qubits hold a logical qubit, and the
\* cursor advances either way
GeneticSwap(gene) ==
  /\ AtGate /\ mapper = "genetic" /\ TwoQubit
  /\ ~Adjacent
  /\ swapIndex < chromosomeLength
  /\ chromosome' = Append(chromosome, gene)
  /\ IF indexOf(layout, gene[1]) # NotFound /\ indexOf(layout, gene[2]) # NotFound
       THEN InsertSwap(gene[1], gene[2])
       ELSE UNCHANGED <<layout, steps, depth, insertedSwaps>>
  /\ swapIndex' = swapIndex + 1
  /\ UNCHANGED <<pc, circuit, hardware, distanceCache, mapper, chromosomeLength, gateIdx,
                 distancePenalty, result>>
  /\ UNCHANGED geneticVars
  /\ UNCHANGED costVars
  /\ UNCHANGED sessionVars

\* the strategy's exhaustion condition, which ends the swap loop of a gate
\* that is not adjacent: `if (path.length < 2) break`, `if (!bestSwap) break`,
\* `swapIndex < chromosome.length` false
Exhausted ==
  \/ mapper = "greedy" /\ Len(GreedyPath) < 2
  \/ mapper = "lookahead" /\ BestSwap.swap = <<>>
  \/ mapper = "genetic" /\ chromosomeLength # TypeError /\ swapIndex >= chromosomeLength

\* the swap loop of the current two-qubit gate is over, and the cache its
\* last test leaves: a findBestSwap that returned null has still filled it
LoopExit ==
  IF Adjacent THEN [over |-> TRUE, cache |-> distanceCache]
  ELSE IF mapper = "lookahead"
    THEN Strict(LAMBDA best : [over |-> best.swap = <<>>, cache |-> best.cache], BestSwap)
  ELSE [over |-> Exhausted, cache |-> distanceCache]

NativeStep == NativeStepAt(Gate, layout, depth)

\* a faulty variant of EmitNative: the cursor is a local of the forEach body,
\* so every gate starts again at the chromosome's first gene
EmitNativeResetCursor ==
  /\ AtGate
  /\ IF TwoQubit
       THEN \E exit \in {LoopExit} :
              /\ exit.over
              /\ distancePenalty' =
                   Plus(distancePenalty,
                        MinusOne(distance(hardware.graph, exit.cache, PhysC, PhysT)))
              /\ distanceCache' = CacheAfter(hardware.graph, exit.cache, PhysC, PhysT)
       ELSE UNCHANGED <<distancePenalty, distanceCache>>
  /\ steps' = Append(steps, NativeStep)
  /\ depth' = depth + 1
  /\ gateIdx' = gateIdx + 1
  /\ swapIndex' = 0
  /\ UNCHANGED <<pc, circuit, hardware, mapper, chromosome, chromosomeLength, layout,
                 insertedSwaps, result>>
  /\ UNCHANGED geneticVars
  /\ UNCHANGED costVars
  /\ UNCHANGED sessionVars

\* the rest of the forEach body: penalty of a two-qubit gate, the Native step
EmitNative ==
  /\ AtGate
  /\ IF TwoQubit
       THEN \E exit \in {LoopExit} :
              /\ exit.over
              /\ distancePenalty' =
                   Plus(distancePenalty,
                        MinusOne(distance(hardware.graph, exit.cache, PhysC, PhysT)))
              /\ distanceCache' = CacheAfter(hardware.graph, exit.cache, PhysC, PhysT)
       ELSE UNCHANGED <<distancePenalty, distanceCache>>
  /\ steps' = Append(steps, NativeStep)
  /\ depth' = depth + 1
  /\ gateIdx' = gateIdx + 1
  /\ UNCHANGED <<pc, circuit, hardware, mapper, chromosome, chromosomeLength, layout,
                 insertedSwaps, swapIndex, result>>
  /\ UNCHANGED geneticVars
  /\ UNCHANGED costVars
  /\ UNCHANGED sessionVars

\* return { steps, insertedSwaps, depth, distancePenalty, finalLayout: layout }
Return ==
  /\ pc = "map"
  /\ gateIdx = Len(circuit.gates)
  /\ result' = [steps |-> steps, insertedSwaps |-> insertedSwaps, depth |-> depth,
                distancePenalty |-> distancePenalty, finalLayout |-> layout]
  /\ pc' = "done"
  /\ UNCHANGED <<circuit, hardware, distanceCache, mapper, chromosome, chromosomeLength>>
  /\ UNCHANGED replayVars
  /\ UNCHANGED geneticVars
  /\ UNCHANGED costVars
  /\ UNCHANGED sessionVars

\* ------------------------------------------------------------------ inputs
\* gates over the logical qubits 0..n-1: the one-qubit "h" on qubit 0 and the
\* two-qubit "cx" on every ordered pair of different qubits, as the benchmark
\* circuits hold
GateInputs(n) ==
  {<<"h", <<0>>>>}
    \cup {<<"cx", <<p[1], p[2]>>>> :
            p \in {q \in (0..(n - 1)) \X (0..(n - 1)) : q[1] # q[2]}}

\* Math.ceil(Math.sqrt(n)) and Math.ceil(n / rows); rows is 0 only for n = 0,
\* and Math.ceil(0 / 0) is NaN, falsy like 0
CeilSqrt(n) == CHOOSE r \in 0..n : r * r >= n /\ (r = 0 \/ (r - 1) * (r - 1) < n)
CeilDiv(n, d) == IF d = 0 THEN 0 ELSE (n + d - 1) \div d

\* the device both UI components build for an n-qubit circuit:
\* { qubits: n, rows: ceil(sqrt(n)), cols: ceil(sqrt(n)) } and
\* { qubits: n, rows: ceil(sqrt(n)), cols: ceil(n / rows) }
TopologyInputs(n) ==
  {<<t, [qubits |-> n, rows |-> CeilSqrt(n), cols |-> c]>> :
     t \in {"lnn", "grid2d", "star"}, c \in {CeilSqrt(n), CeilDiv(n, CeilSqrt(n))}}

\* the genes a chromosome is made of: getValidSwaps()
GeneInputs ==
  LET swaps == getValidSwaps(hardware.graph) IN {swaps[i] : i \in 1..Len(swaps)}

Replay ==
  \/ GreedySwap
  \/ LookAheadSwap
  \/ mapper = "genetic" /\ \E gene \in GeneInputs : GeneticSwap(gene)
  \/ EmitNative
  \/ Return

Next ==
  \/ \E n \in 1..MaxQubits : NewCircuit(n)
  \/ pc = "circuit" /\ \E gi \in GateInputs(circuit.nQubits) : AddGate(gi[1], gi[2])
  \/ pc = "circuit" /\ \E ti \in TopologyInputs(circuit.nQubits) : NewTopology(ti[1], ti[2])
  \/ GreedyMap
  \/ LookAheadMap
  \/ \E len \in 0..MaxChromosome : ApplyChromosome(len)
  \/ Replay

Spec == Init /\ [][Next]_vars

\* ------------------------------------- several runs on the same objects
\* the caller keeps the MappingResult and calls map() or applyChromosome()
\* again, of any strategy, on the same circuit and the same topology object,
\* whose distanceCache holds what the runs before have left in it
MapAgain ==
  /\ pc = "done"
  /\ Cardinality(earlier) < MaxEarlierRuns
  /\ earlier' = earlier \cup {[mapper |-> mapper, chromosome |-> chromosome,
                                chromosomeLength |-> chromosomeLength, result |-> result]}
  /\ pc' = "hardware"
  /\ UNCHANGED <<interactionGraph, upcoming, ui, queried, bred>>
  /\ UNCHANGED <<circuit, hardware, distanceCache, mapper, chromosome, chromosomeLength,
                 result>>
  /\ UNCHANGED replayVars
  /\ UNCHANGED geneticVars
  /\ UNCHANGED costVars

NextAgain ==
  \/ Next
  \/ MapAgain

SpecAgain == Init /\ [][NextAgain]_vars

\* ------------------------------------------------ the two UI components
\* `ui` holds the useState values of the mounted component: results (null is
\* <<>>), running, activeMapper, workerError; the Worker it waits for and the
\* setTimeout(..., 100) it has armed.  An entry of results is
\* { ...result, mapper: mapper.name, cost }: it is written by its mapper
\* name, the fields of result being what map() returned.
Entry(name) == [mapper |-> name]

\* new GeneticSwapOptimizer(circuit, hardware).map() throws on a device
\* without edges: initializePopulation() draws undefined genes and
\* chromosomeKey() destructures them
GeneticMapThrows == getValidSwaps(hardware.graph) = <<>>

\* mappers.map(mapper => ...) over [Greedy, LookAhead, Genetic] on the main
\* thread: the entries, or <<>> when map() throws
MainThreadResults ==
  IF GeneticMapThrows THEN <<>>
  ELSE <<Entry("Greedy Baseline"), Entry("Look-Ahead (k=3)"), Entry("Genetic Algorithm")>>

\* the message handler of mapperWorker: cfg = ev.data.config || {}; the
\* Genetic mapper is added only when cfg.useGenetic
WorkerReply(data) ==
  LET useGenetic == data.config # Undefined /\ data.config.useGenetic
  IN IF useGenetic /\ GeneticMapThrows THEN [error |-> TRUE, results |-> <<>>]
     ELSE [error |-> FALSE,
           results |-> <<Entry("Greedy Baseline"), Entry("Look-Ahead (k=3)")>>
                         \o (IF useGenetic THEN <<Entry("Genetic Algorithm")>> ELSE <<>>)]

\* worker.postMessage({ circuitData, hardwareData }): no config
PostedMessage == [config |-> Undefined]

getMapperName(key) ==
  IF key = "greedy" THEN "Greedy Baseline"
  ELSE IF key = "lookahead" THEN "Look-Ahead (k=3)"
  ELSE "Genetic Algorithm"

\* results?.find(r => r.mapper === getMapperName(activeMapper)); undefined
\* is <<>>
currentResult ==
  LET hits == SelectSeq(ui.results, LAMBDA r : r.mapper = getMapperName(ui.activeMapper))
  IN IF hits = <<>> THEN <<>> ELSE <<hits[1]>>

UiFrame ==
  /\ UNCHANGED <<interactionGraph, upcoming, earlier, queried, bred>>
  /\ UNCHANGED <<pc, circuit, hardware, distanceCache, mapper, chromosome, chromosomeLength,
                 result>>
  /\ UNCHANGED replayVars
  /\ UNCHANGED geneticVars
  /\ UNCHANGED costVars

\* the component is mounted and its effect has built hardware and circuit
Mount(component) ==
  /\ pc = "hardware" /\ ui.component = ""
  /\ ui' = [ui EXCEPT !.component = component]
  /\ UiFrame

\* the mapper <select>; QuantumCompiler disables it while results is null
SetActiveMapper(key) ==
  /\ ui.component # ""
  /\ ui.component = "QuantumCompiler" => ui.results # <<>>
  /\ ui' = [ui EXCEPT !.activeMapper = key]
  /\ UiFrame

\* runOptimization of QuantumCompiler (the button is disabled while
\* running): the Worker is created, the timeout armed and the message
\* posted; or new Worker throws and the catch block maps on the main thread
\* (a map() that throws there escapes with running still true)
RunOptimization(created) ==
  /\ ui.component = "QuantumCompiler" /\ pc = "hardware" /\ ~ui.running
  /\ ui' = IF created THEN [ui EXCEPT !.running = TRUE, !.worker = "waiting"]
           ELSE IF MainThreadResults = <<>> THEN [ui EXCEPT !.running = TRUE]
           ELSE [ui EXCEPT !.results = MainThreadResults, !.running = FALSE]
  /\ UiFrame

\* the worker's reply reaches the 'message' listener
WorkerMessage ==
  /\ ui.worker = "waiting"
  /\ \E reply \in {WorkerReply(PostedMessage)} :
       ui' = IF reply.error
               THEN [ui EXCEPT !.running = FALSE, !.worker = "none"]
               ELSE [ui EXCEPT !.results = reply.results, !.running = FALSE,
                               !.worker = "none"]
  /\ UiFrame

\* the 8000 ms timeout fires first: the worker is terminated and the
\* mappers run on the main thread
WorkerTimeout ==
  /\ ui.worker = "waiting"
  /\ ui' = IF MainThreadResults = <<>>
             THEN [ui EXCEPT !.running = FALSE, !.worker = "none"]
             ELSE [ui EXCEPT !.results = MainThreadResults, !.running = FALSE,
                             !.worker = "none"]
  /\ UiFrame

\* the 'error' listener: the worker script failed
WorkerError ==
  /\ ui.worker = "waiting"
  /\ ui' = [ui EXCEPT !.running = FALSE, !.worker = "none"]
  /\ UiFrame

\* runOptimization of QuantumCompiler3DUI: setTimeout(..., 100)
RunOptimization3D ==
  /\ ui.component = "QuantumCompiler3DUI" /\ pc = "hardware" /\ ~ui.running
  /\ ui' = [ui EXCEPT !.running = TRUE, !.workerError = FALSE, !.timer = "armed"]
  /\ UiFrame

\* its callback: the mappers run on the main thread, inside try/catch/finally
MainThreadTimer ==
  /\ ui.timer = "armed"
  /\ ui' = IF MainThreadResults = <<>>
             THEN [ui EXCEPT !.workerError = TRUE, !.running = FALSE, !.timer = "none"]
             ELSE [ui EXCEPT !.results = MainThreadResults, !.running = FALSE,
                             !.timer = "none"]
  /\ UiFrame

\* the circuits and devices the components build (nQubits is at least 3),
\* and every order of clicks, replies and timeouts
NextUi ==
  \/ \E n \in MaxQubits..MaxQubits : NewCircuit(n)
  \/ pc = "circuit" /\ \E gi \in GateInputs(circuit.nQubits) : AddGate(gi[1], gi[2])
  \/ pc = "circuit" /\ \E ti \in TopologyInputs(circuit.nQubits) : NewTopology(ti[1], ti[2])
  \/ \E component \in {"QuantumCompiler", "QuantumCompiler3DUI"} : Mount(component)
  \/ \E key \in {"greedy", "lookahead", "genetic"} : SetActiveMapper(key)
  \/ \E created \in BOOLEAN : RunOptimization(created)
  \/ WorkerMessage
  \/ WorkerTimeout
  \/ WorkerError
  \/ RunOptimization3D
  \/ MainThreadTimer

SpecUi == Init /\ [][NextUi]_vars

\* ------------------------------ LookAheadMapper on a device with spare qubits
\* the default of the first component: 5 logical qubits on the 3 x 3 grid,
\* four of whose physical qubits hold no logical qubit
NextSpare ==
  \/ \E n \in SpareQubits..SpareQubits : NewCircuit(n)
  \/ pc = "circuit" /\ \E gi \in GateInputs(circuit.nQubits) : AddGate(gi[1], gi[2])
  \/ pc = "circuit" /\ NewTopology("grid2d", [qubits |-> circuit.nQubits,
                                                rows |-> SpareGridDim, cols |-> SpareGridDim])
  \/ LookAheadMap
  \/ LookAheadSwap
  \/ EmitNative
  \/ Return

SpecSpare == Init /\ [][NextSpare]_vars

\* ------------------------------------------- every gate with operands in range
\* addGate(type, qubits) checks nothing: a two-qubit gate may name the same
\* qubit twice, and its operands still lie in [0, nQubits)
InRangeGateInputs(n) ==
  {<<"h", <<0>>>>}
    \cup {<<"cx", <<p[1], p[2]>>>> : p \in (0..(n - 1)) \X (0..(n - 1))}

\* the three strategies on every circuit whose operands are in range
NextInRange ==
  \/ \E n \in 1..MaxQubits : NewCircuit(n)
  \/ pc = "circuit" /\ \E gi \in InRangeGateInputs(circuit.nQubits) : AddGate(gi[1], gi[2])
  \/ pc = "circuit" /\ \E ti \in TopologyInputs(circuit.nQubits) : NewTopology(ti[1], ti[2])
  \/ GreedyMap
  \/ LookAheadMap
  \/ \E len \in 0..MaxChromosome : ApplyChromosome(len)
  \/ Replay

SpecInRange == Init /\ [][NextInRange]_vars

\* --------------------------------------------------- unvalidated inputs
\* Neither constructor checks its arguments, so every call below is one the
\* program accepts: a circuit of 0 qubits, operands outside [0, nQubits)
\* (also a repeated operand), a shape tag buildGraph has no branch for, and
\* a qubit count of 0.
AnyGateInputs(n) ==
  {<<"h", <<q>>>> : q \in 0..n}
    \cup {<<"cx", <<p[1], p[2]>>>> : p \in (0..n) \X (0..n)}

\* lnn and star devices of n qubits or of 0 qubits (the circuit's own n may
\* be 0 as well), and a device of a shape buildGraph does not know
AnyTopologyInputs(n) ==
  {<<t, [qubits |-> k, rows |-> CeilSqrt(n), cols |-> CeilSqrt(n)]>> :
     t \in {"lnn", "star", "ring"}, k \in {0, n}}

NextAnyInput ==
  \/ \E n \in 0..MaxQubits : NewCircuit(n)
  \/ pc = "circuit" /\ \E gi \in AnyGateInputs(circuit.nQubits) : AddGate(gi[1], gi[2])
  \/ pc = "circuit" /\ \E ti \in AnyTopologyInputs(circuit.nQubits) : NewTopology(ti[1], ti[2])
  \/ GreedyMap
  \/ LookAheadMap
  \/ \E len \in 0..MaxChromosome : ApplyChromosome(len)
  \/ Replay

SpecAnyInput == Init /\ [][NextAnyInput]_vars

\* ------------------------------------------- GeneticSwapOptimizer.map()
\* new GeneticSwapOptimizer(circuit, hardware, cfg).map() up to the head of
\* its for loop: the constructor, initializePopulation() and the locals
GeneticMap(cfg, pop) ==
  /\ pc = "hardware"
  /\ mapper' = "genetic"
  /\ config' = NewConfig(cfg)
  /\ fitnessCache' = NoCache
  /\ population' = pop
  /\ evaluated' = <<>>
  /\ newPopulation' = <<>>
  /\ bestEver' = <<>>
  /\ bestEverFitness' = NegInfinity
  /\ plateauCounter' = 0
  /\ gen' = 0
  /\ pc' = "evolve"
  /\ UNCHANGED <<circuit, hardware, distanceCache, chromosome, chromosomeLength, result>>
  /\ UNCHANGED replayVars
  /\ UNCHANGED costVars
  /\ UNCHANGED sessionVars

\* a faulty variant of InLoop: the for loop without its generation cap
InLoopUncapped == pc = "evolve" /\ plateauCounter < config.plateauThreshold

InLoop ==
  pc = "evolve" /\ gen < config.generations /\ plateauCounter < config.plateauThreshold

\* Math.floor(populationSize * eliteRatio)
EliteCount == (config.populationSize * config.eliteRatioPct) \div 100

\* the end of one pass of the for loop, once newPopulation is full
NextGeneration(newPop) ==
  IF Len(newPop) < config.populationSize
    THEN /\ newPopulation' = newPop
         /\ pc' = "breed"
         /\ UNCHANGED <<population, gen>>
    ELSE /\ newPopulation' = newPop
         /\ population' = newPop
         /\ gen' = gen + 1
         /\ pc' = "evolve"

\* chromosomeKey() destructures a gene that is undefined: map() throws
EvaluateThrows ==
  /\ InLoop
  /\ \E i \in 1..Len(population) : KeyThrows(population[i])
  /\ pc' = "threw"
  /\ UNCHANGED <<circuit, hardware, distanceCache, mapper, chromosome, chromosomeLength,
                 result>>
  /\ UNCHANGED replayVars
  /\ UNCHANGED geneticVars
  /\ UNCHANGED costVars
  /\ UNCHANGED sessionVars

\* one pass of the for loop down to the elites: evaluate, sort, keep the
\* best ever, count the plateau and break on it, else carry the elites over
Evaluate ==
  /\ InLoop
  /\ \A i \in 1..Len(population) : ~KeyThrows(population[i])
  /\ \E e \in {EvaluateLoop(circuit, hardware.graph, population,
                             [evaluated |-> <<>>, fitnessCache |-> fitnessCache,
                              cache |-> distanceCache])} :
       \E sorted \in {SortByFitness(e.evaluated)} :
         LET better == sorted[1].fitness > bestEverFitness
             plateau == IF better THEN 0 ELSE plateauCounter + 1
         IN /\ evaluated' = sorted
            /\ fitnessCache' = e.fitnessCache
            /\ distanceCache' = e.cache
            /\ bestEver' = IF better THEN <<sorted[1].chromosome>> ELSE bestEver
            /\ bestEverFitness' = IF better THEN sorted[1].fitness ELSE bestEverFitness
            /\ plateauCounter' = plateau
            /\ IF plateau >= config.plateauThreshold
                 THEN UNCHANGED <<pc, population, newPopulation, gen>>
                 ELSE NextGeneration([i \in 1..Min(EliteCount, Len(sorted)) |->
                                        sorted[i].chromosome])
  /\ UNCHANGED <<circuit, hardware, mapper, chromosome, chromosomeLength, result, config>>
  /\ UNCHANGED replayVars
  /\ UNCHANGED costVars
  /\ UNCHANGED sessionVars

\* a faulty variant of Breed: newPopulation.unshift(child), the child goes in
\* front of the elites
BreedUnshift(child) ==
  /\ pc = "breed"
  /\ NextGeneration(<<child>> \o newPopulation)
  /\ UNCHANGED <<circuit, hardware, distanceCache, mapper, chromosome, chromosomeLength,
                 result, config, fitnessCache, evaluated, bestEver, bestEverFitness,
                 plateauCounter>>
  /\ UNCHANGED replayVars
  /\ UNCHANGED costVars
  /\ UNCHANGED sessionVars

\* one pass of the while loop: a child is pushed
Breed(child) ==
  /\ pc = "breed"
  /\ NextGeneration(Append(newPopulation, child))
  /\ UNCHANGED <<circuit, hardware, distanceCache, mapper, chromosome, chromosomeLength,
                 result, config, fitnessCache, evaluated, bestEver, bestEverFitness,
                 plateauCounter>>
  /\ UNCHANGED replayVars
  /\ UNCHANGED costVars
  /\ UNCHANGED sessionVars

\* return this.applyChromosome(bestEver): the replay starts
ApplyBest ==
  /\ pc = "evolve" /\ ~InLoop
  /\ chromosome' = <<>>
  /\ chromosomeLength' = IF bestEver = <<>> THEN TypeError ELSE Len(bestEver[1])
  /\ pc' = "map"
  /\ BeginReplay
  /\ UNCHANGED <<circuit, hardware, distanceCache, mapper, result>>
  /\ UNCHANGED geneticVars
  /\ UNCHANGED costVars
  /\ UNCHANGED sessionVars

\* the while loop of the replay reads the gene of bestEver under the cursor
BestGeneSwap ==
  /\ bestEver # <<>>
  /\ swapIndex < Len(bestEver[1])
  /\ GeneticSwap(bestEver[1][swapIndex + 1])

\* `swapIndex < chromosome.length` with chromosome null, which is read when
\* a two-qubit gate is not adjacent: applyChromosome throws
NullChromosomeThrows ==
  /\ AtGate /\ mapper = "genetic" /\ TwoQubit
  /\ ~Adjacent
  /\ chromosomeLength = TypeError
  /\ pc' = "threw"
  /\ UNCHANGED <<circuit, hardware, distanceCache, mapper, chromosome, chromosomeLength,
                 result>>
  /\ UNCHANGED replayVars
  /\ UNCHANGED geneticVars
  /\ UNCHANGED costVars
  /\ UNCHANGED sessionVars

\* the configuration map() runs with
GeneticConfigs ==
  {[populationSize |-> PopulationSize, generations |-> Generations,
    tournamentSize |-> TournamentSize, eliteRatioPct |-> e,
    maxSwapsPerChromosome |-> MaxGeneticSwaps, plateauThreshold |-> t] :
     t \in 1..PlateauThreshold, e \in {0, EliteRatioPct}}

\* the circuits map() is run on: two-qubit gates only, each pair once
GeneticGateInputs(n) ==
  {<<"cx", <<pr[1], pr[2]>>>> : pr \in {x \in (0..(n - 1)) \X (0..(n - 1)) : x[1] < x[2]}}

\* lnn devices of up to n qubits (one of fewer than n qubits leaves a logical
\* qubit without a vertex), the star of n qubits and the square grid the UI
\* builds for n qubits (which has spare physical qubits when n is no square)
GeneticTopologyInputs(n) ==
  {<<"lnn", [qubits |-> k, rows |-> CeilSqrt(n), cols |-> CeilSqrt(n)]>> : k \in 1..n}
    \cup {<<t, [qubits |-> n, rows |-> CeilSqrt(n), cols |-> CeilSqrt(n)]>> :
            t \in {"star", "grid2d"}}

NextGenetic ==
  \/ \E n \in 1..MaxQubits : NewCircuit(n)
  \/ /\ pc = "circuit" /\ Len(circuit.gates) < MaxGeneticGates
     /\ \E gi \in GeneticGateInputs(circuit.nQubits) : AddGate(gi[1], gi[2])
  \/ pc = "circuit" /\ \E ti \in GeneticTopologyInputs(circuit.nQubits) :
                          NewTopology(ti[1], ti[2])
  \/ pc = "hardware" /\ \E cfg \in GeneticConfigs :
                           \E pop \in initializePopulation(hardware.graph, NewConfig(cfg)) :
                             GeneticMap(cfg, pop)
  \/ EvaluateThrows
  \/ Evaluate
  \/ pc = "breed" /\ \E child \in Offspring(evaluated, config, hardware.graph) : Breed(child)
  \/ ApplyBest
  \/ BestGeneSwap
  \/ NullChromosomeThrows
  \/ EmitNative
  \/ Return

SpecGenetic == Init /\ [][NextGenetic]_vars

\* map() runs to its end: a synchronous call is never suspended for ever
FairSpecGenetic == SpecGenetic /\ WF_vars(NextGenetic)

\* ------------------------------------------------- queries on a topology
\* hardware.distance(q1, q2): the call returns distance(...) and leaves the
\* pair in the distanceCache
Distance(q1, q2) ==
  /\ pc = "hardware"
  /\ Cardinality(DOMAIN distanceCache) < MaxQueries
  /\ distanceCache' = CacheAfter(hardware.graph, distanceCache, q1, q2)
  /\ UNCHANGED <<pc, circuit, hardware, mapper, chromosome, chromosomeLength, result>>
  /\ UNCHANGED replayVars
  /\ UNCHANGED geneticVars
  /\ UNCHANGED costVars
  /\ UNCHANGED sessionVars

\* devices of the three shapes; a parameter of 0 is a missing parameter
DeviceInputs ==
  {<<t, [qubits |-> k, rows |-> 0, cols |-> 0]>> :
     t \in {"lnn", "star"}, k \in 0..MaxDeviceQubits}
    \cup {<<"grid2d", [qubits |-> 0, rows |-> r, cols |-> c]>> :
            r \in 0..MaxGridDim, c \in 0..MaxGridDim}

\* the ids a query is made with: the device's vertices and one id that is
\* no vertex
QubitIds == DOMAIN hardware.graph \cup {Cardinality(DOMAIN hardware.graph)}

NextTopology ==
  \/ \E n \in 1..1 : NewCircuit(n)
  \/ pc = "circuit" /\ \E ti \in DeviceInputs : NewTopology(ti[1], ti[2])
  \/ \E q1 \in QubitIds : \E q2 \in QubitIds : Distance(q1, q2)

SpecTopology == Init /\ [][NextTopology]_vars

\* ------------------------------------- a sequence of distance() calls
\* hardware.distance(q1, q2) as one of a sequence of calls on the same
\* topology: the value comes from the distanceCache (line 56) or from the
\* BFS, which stores it under the key of the pair
DistanceCall(q1, q2) ==
  /\ pc = "hardware"
  /\ queried.count < MaxMemoQueries
  /\ queried' = [count |-> queried.count + 1, q1 |-> q1, q2 |-> q2,
                 returned |-> distance(hardware.graph, distanceCache, q1, q2),
                 hit |-> CacheKey(q1, q2) \in DOMAIN distanceCache]
  /\ distanceCache' = CacheAfter(hardware.graph, distanceCache, q1, q2)
  /\ UNCHANGED <<interactionGraph, upcoming, earlier, ui, bred>>
  /\ UNCHANGED <<pc, circuit, hardware, mapper, chromosome, chromosomeLength, result>>
  /\ UNCHANGED replayVars
  /\ UNCHANGED geneticVars
  /\ UNCHANGED costVars

\* lnn and star devices of up to MaxMemoQubits qubits and the grid of
\* MaxGridDim rows and columns
MemoDeviceInputs ==
  {<<t, [qubits |-> k, rows |-> 0, cols |-> 0]>> :
     t \in {"lnn", "star"}, k \in 1..MaxMemoQubits}
    \cup {<<"grid2d", [qubits |-> 0, rows |-> MaxGridDim, cols |-> MaxGridDim]>>}

NextMemo ==
  \/ \E n \in 1..1 : NewCircuit(n)
  \/ pc = "circuit" /\ \E ti \in MemoDeviceInputs : NewTopology(ti[1], ti[2])
  \/ \E q1 \in QubitIds : \E q2 \in QubitIds : DistanceCall(q1, q2)

SpecMemo == Init /\ [][NextMemo]_vars

\* ------------------------------------------- queries on an InteractionGraph
\* new InteractionGraph(circuit), as the constructor of LookAheadMapper does
NewInteractionGraph ==
  /\ pc = "hardware"
  /\ interactionGraph = <<>>
  /\ interactionGraph' = <<buildInteractionGraph(circuit)>>
  /\ UNCHANGED <<upcoming, earlier, ui, queried, bred>>
  /\ UNCHANGED <<pc, circuit, hardware, distanceCache, mapper, chromosome, chromosomeLength,
                 result>>
  /\ UNCHANGED replayVars
  /\ UNCHANGED geneticVars
  /\ UNCHANGED costVars

\* interactionGraph.getUpcomingInteractions(currentGateIdx, windowSize): reads
\* circuit.gates, writes nothing
UpcomingInteractions(currentGateIdx, windowSize) ==
  /\ pc = "hardware"
  /\ interactionGraph # <<>>
  /\ upcoming' = [currentGateIdx |-> currentGateIdx, windowSize |-> windowSize,
                  result |-> getUpcomingInteractions(circuit, currentGateIdx, windowSize)]
  /\ UNCHANGED <<interactionGraph, earlier, ui, queried, bred>>
  /\ UNCHANGED <<pc, circuit, hardware, distanceCache, mapper, chromosome, chromosomeLength,
                 result>>
  /\ UNCHANGED replayVars
  /\ UNCHANGED geneticVars
  /\ UNCHANGED costVars

\* circuits of one-qubit and two-qubit gates, one device, and every window
\* of up to MaxWindow gates that starts at a gate index or at the end
NextInteraction ==
  \/ \E n \in 1..MaxQubits : NewCircuit(n)
  \/ pc = "circuit" /\ \E gi \in GateInputs(circuit.nQubits) : AddGate(gi[1], gi[2])
  \/ pc = "circuit" /\ NewTopology("lnn", [qubits |-> circuit.nQubits, rows |-> 0, cols |-> 0])
  \/ NewInteractionGraph
  \/ \E i \in 0..Len(circuit.gates) : \E w \in 0..MaxWindow : UpcomingInteractions(i, w)

SpecInteraction == Init /\ [][NextInteraction]_vars

\* -------------------------------------------------------------- CostModel
DefaultAlpha == 10
DefaultBeta == 1
DefaultGamma == 5

\* new CostModel(config): config.alpha || 10, config.beta || 1,
\* config.gamma || 5
NewCostModelWeights(cfg) ==
  [alpha |-> OrDefault(cfg.alpha, DefaultAlpha),
   beta |-> OrDefault(cfg.beta, DefaultBeta),
   gamma |-> OrDefault(cfg.gamma, DefaultGamma)]

\* a faulty variant of evaluate: the distance term is scaled by the depth
evaluateWithCrossTerm(m, r) ==
  m.alpha * r.insertedSwaps + m.beta * r.depth + m.gamma * r.distancePenalty * r.depth

\* evaluate(result); `result.x || 0` is x for a number (0 for 0)
evaluate(m, r) ==
  m.alpha * OrDefault(r.insertedSwaps, 0) + m.beta * OrDefault(r.depth, 0)
    + m.gamma * OrDefault(r.distancePenalty, 0)

\* explain(): the template string, piece by piece
explain(m) ==
  <<"Cost = ", m.alpha, "·SWAPs + ", m.beta, "·Depth + ", m.gamma, "·Distance">>

NewCostModel(cfg) ==
  /\ costModel = <<>>
  /\ costConfig' = cfg
  /\ costModel' = NewCostModelWeights(cfg)
  /\ UNCHANGED <<costResult, cost, explanation>>
  /\ UNCHANGED <<pc, circuit, hardware, distanceCache, mapper, chromosome, chromosomeLength,
                 result>>
  /\ UNCHANGED replayVars
  /\ UNCHANGED geneticVars
  /\ UNCHANGED sessionVars

\* costModel.evaluate(r): reads r and the weights, writes neither
EvaluateCost(r) ==
  /\ costModel # <<>>
  /\ cost' = evaluate(costModel, r)
  /\ costResult' = r
  /\ UNCHANGED <<costConfig, costModel, explanation>>
  /\ UNCHANGED <<pc, circuit, hardware, distanceCache, mapper, chromosome, chromosomeLength,
                 result>>
  /\ UNCHANGED replayVars
  /\ UNCHANGED geneticVars
  /\ UNCHANGED sessionVars

\* costModel.explain()
Explain ==
  /\ costModel # <<>>
  /\ explanation' = explain(costModel)
  /\ UNCHANGED <<costConfig, costModel, costResult, cost>>
  /\ UNCHANGED <<pc, circuit, hardware, distanceCache, mapper, chromosome, chromosomeLength,
                 result>>
  /\ UNCHANGED replayVars
  /\ UNCHANGED geneticVars
  /\ UNCHANGED sessionVars

\* the weights a CostModel is constructed with (0 is a nonnegative weight)
WeightInputs ==
  [alpha : 0..MaxWeight, beta : 0..MaxWeight, gamma : 0..MaxWeight]

\* the counters of a MappingResult
CounterInputs ==
  [insertedSwaps : 0..MaxCounter, depth : 0..MaxCounter, distancePenalty : 0..MaxCounter]

NextCost ==
  \/ \E cfg \in WeightInputs : NewCostModel(cfg)
  \/ \E r \in CounterInputs : EvaluateCost(r)
  \/ Explain

SpecCost == Init /\ [][NextCost]_vars

\* ------------------------------------- map() under degenerate configurations
\* Scenario C: generations: 0 (which `config.generations || 50` replaces by
\* the default) and populationSize: 1
DegenerateConfigs ==
  {[populationSize |-> PopulationSize, generations |-> 0,
    tournamentSize |-> TournamentSize, eliteRatioPct |-> EliteRatioPct,
    maxSwapsPerChromosome |-> MaxGeneticSwaps, plateauThreshold |-> t] :
     t \in 1..PlateauThreshold}
  \cup
  {[populationSize |-> 1, generations |-> Generations,
    tournamentSize |-> TournamentSize, eliteRatioPct |-> EliteRatioPct,
    maxSwapsPerChromosome |-> MaxGeneticSwaps, plateauThreshold |-> t] :
     t \in 1..PlateauThreshold}

NextDegenerate ==
  \/ \E n \in 1..MaxQubits : NewCircuit(n)
  \/ /\ pc = "circuit" /\ Len(circuit.gates) < MaxGeneticGates
     /\ \E gi \in GeneticGateInputs(circuit.nQubits) : AddGate(gi[1], gi[2])
  \/ pc = "circuit" /\ \E ti \in GeneticTopologyInputs(circuit.nQubits) :
                          NewTopology(ti[1], ti[2])
  \/ pc = "hardware" /\ \E cfg \in DegenerateConfigs :
                           \E pop \in initializePopulation(hardware.graph, NewConfig(cfg)) :
                             GeneticMap(cfg, pop)
  \/ EvaluateThrows
  \/ Evaluate
  \/ pc = "breed" /\ \E child \in Offspring(evaluated, config, hardware.graph) : Breed(child)
  \/ ApplyBest
  \/ BestGeneSwap
  \/ NullChromosomeThrows
  \/ EmitNative
  \/ Return

SpecDegenerate == Init /\ [][NextDegenerate]_vars

\* ------------------------------------ map() with chromosomes of several genes
\* the configuration: chromosomes of up to MaxEvolveSwaps genes, half of the
\* population carried over as elites
EvolveConfigs ==
  {[populationSize |-> PopulationSize, generations |-> Generations,
    tournamentSize |-> TournamentSize, eliteRatioPct |-> EliteRatioPct,
    maxSwapsPerChromosome |-> MaxEvolveSwaps, plateauThreshold |-> PlateauThreshold]}

\* lnn devices of up to n qubits and the star of n qubits
EvolveTopologyInputs(n) ==
  {<<"lnn", [qubits |-> k, rows |-> CeilSqrt(n), cols |-> CeilSqrt(n)]>> : k \in 1..n}
    \cup {<<"star", [qubits |-> n, rows |-> CeilSqrt(n), cols |-> CeilSqrt(n)]>>}

NextEvolve ==
  \/ \E n \in 1..MaxQubits : NewCircuit(n)
  \/ /\ pc = "circuit" /\ Len(circuit.gates) < MaxEvolveGates
     /\ \E gi \in GeneticGateInputs(circuit.nQubits) : AddGate(gi[1], gi[2])
  \/ pc = "circuit" /\ \E ti \in EvolveTopologyInputs(circuit.nQubits) :
                          NewTopology(ti[1], ti[2])
  \/ pc = "hardware" /\ \E cfg \in EvolveConfigs :
                           \E pop \in initializePopulation(hardware.graph, NewConfig(cfg)) :
                             GeneticMap(cfg, pop)
  \/ EvaluateThrows
  \/ Evaluate
  \/ pc = "breed" /\ \E child \in Offspring(evaluated, config, hardware.graph) : Breed(child)
  \/ ApplyBest
  \/ BestGeneSwap
  \/ NullChromosomeThrows
  \/ EmitNative
  \/ Return

SpecEvolve == Init /\ [][NextEvolve]_vars

\* --------------------------------------------- crossover() and mutate()
\* the arrays the two operators are called with: sequences of up to
\* maxSwapsPerChromosome edges, the empty one included
OperatorInputs == UNION {[1..len -> GeneChoices(hardware.graph)] :
                           len \in 0..config.maxSwapsPerChromosome}

\* a faulty variant of Crossover: the head of the child is taken with
\* p1.splice(0, point), which removes it from p1
CrossoverSplice(p1, p2, point) ==
  /\ mapper = "genetic" /\ pc = "evolve"
  /\ bred' = [op |-> "crossover", args |-> <<p1, p2>>,
              after |-> <<IF Len(p1) = 0 \/ Len(p2) = 0 THEN p1
                          ELSE SubSeq(p1, point + 1, Len(p1)), p2>>,
              draw |-> [point |-> point], returned |-> crossover(p1, p2, point)]
  /\ UNCHANGED <<interactionGraph, upcoming, earlier, ui, queried>>
  /\ UNCHANGED <<pc, circuit, hardware, distanceCache, mapper, chromosome, chromosomeLength,
                 result>>
  /\ UNCHANGED replayVars
  /\ UNCHANGED geneticVars
  /\ UNCHANGED costVars

\* this.crossover(p1, p2): slice() and the spread build new arrays, p1 and p2
\* are left as they were
Crossover(p1, p2, point) ==
  /\ mapper = "genetic" /\ pc = "evolve"
  /\ bred' = [op |-> "crossover", args |-> <<p1, p2>>, after |-> <<p1, p2>>,
              draw |-> [point |-> point], returned |-> crossover(p1, p2, point)]
  /\ UNCHANGED <<interactionGraph, upcoming, earlier, ui, queried>>
  /\ UNCHANGED <<pc, circuit, hardware, distanceCache, mapper, chromosome, chromosomeLength,
                 result>>
  /\ UNCHANGED replayVars
  /\ UNCHANGED geneticVars
  /\ UNCHANGED costVars

\* this.mutate(chromosome): works on the copy [...chromosome]
Mutate(chrom, kind, idx, gene) ==
  /\ mapper = "genetic" /\ pc = "evolve"
  /\ bred' = [op |-> "mutate", args |-> <<chrom>>, after |-> <<chrom>>,
              draw |-> [kind |-> kind, idx |-> idx, gene |-> gene],
              returned |-> mutate(chrom, config, kind, idx, gene)]
  /\ UNCHANGED <<interactionGraph, upcoming, earlier, ui, queried>>
  /\ UNCHANGED <<pc, circuit, hardware, distanceCache, mapper, chromosome, chromosomeLength,
                 result>>
  /\ UNCHANGED replayVars
  /\ UNCHANGED geneticVars
  /\ UNCHANGED costVars

\* an optimizer is constructed on a circuit and a device, then its two
\* operators are called with every pair of arrays and every random draw
NextOperators ==
  \/ \E n \in MaxQubits..MaxQubits : NewCircuit(n)
  \/ pc = "circuit" /\ \E ti \in EvolveTopologyInputs(circuit.nQubits) :
                          NewTopology(ti[1], ti[2])
  \/ pc = "hardware" /\ \E cfg \in EvolveConfigs :
                           \E pop \in initializePopulation(hardware.graph, NewConfig(cfg)) :
                             GeneticMap(cfg, pop)
  \/ \E p1 \in OperatorInputs : \E p2 \in OperatorInputs :
       \E point \in 0..Max(Min(Len(p1), Len(p2)) - 1, 0) : Crossover(p1, p2, point)
  \/ \E chrom \in OperatorInputs : \E kind \in {"replace", "append", "delete"} :
       \E idx \in 0..Max(Len(chrom) - 1, 0) : \E gene \in GeneChoices(hardware.graph) :
         Mutate(chrom, kind, idx, gene)

SpecOperators == Init /\ [][NextOperators]_vars

\* ------------------------------------------------------- reading a result
InReplay == pc \in {"map", "done"}

\* the layout before step k: the snapshot of step k-1, the identity before
\* the first step
Before(k) == IF k = 1 THEN Snapshot(IdentityLayout(circuit.nQubits)) ELSE steps[k - 1].layout

IsPermutation(snap) ==
  /\ DOMAIN snap = 0..(circuit.nQubits - 1)
  /\ {snap[i] : i \in DOMAIN snap} = 0..(circuit.nQubits - 1)

IsNativeTwoQubit(st) == ~st.inserted /\ Len(st.logical) = 2

RECURSIVE CountSwaps(_)
CountSwaps(ss) ==
  IF ss = <<>> THEN 0 ELSE (IF Head(ss).inserted THEN 1 ELSE 0) + CountSwaps(Tail(ss))

\* sum over the Native steps of two-qubit gates of distance(p1, p2) - 1, a
\* fresh BFS on the recorded physical qubits
RECURSIVE PenaltySum(_)
PenaltySum(ss) ==
  IF ss = <<>> THEN 0
  ELSE Plus(IF IsNativeTwoQubit(Head(ss))
              THEN MinusOne(BfsDistance(hardware.graph, Head(ss).physical[1],
                                        Head(ss).physical[2]))
              ELSE 0,
            PenaltySum(Tail(ss)))

Natives == SelectSeq(steps, LAMBDA st : ~st.inserted)

\* C1: in every strategy, on every valid circuit and topology, the layout
\* snapshot of every emitted step and the returned finalLayout are
\* permutations of 0..nQubits-1.
C1_LayoutIsPermutation ==
  InReplay =>
    /\ \A k \in 1..Len(steps) : IsPermutation(steps[k].layout)
    /\ (pc = "done" => IsPermutation(Snapshot(result.finalLayout)))

\* C2: when the swap loop of a two-qubit gate ends because the gate's images
\* are adjacent (no exhaustion condition fired), the Native step emitted
\* records those two physical qubits, they are at distance 1, and
\* distancePenalty does not change.
C2_ResolvedGateIsAdjacent ==
  [][(AtGate /\ TwoQubit /\ Adjacent /\ gateIdx' = gateIdx + 1) =>
       LET native == steps'[Len(steps')]
       IN /\ ~native.inserted
          /\ native.physical = <<PhysC, PhysT>>
          /\ isConnected(hardware.graph, native.physical[1], native.physical[2])
          /\ BfsDistance(hardware.graph, native.physical[1], native.physical[2]) = 1
          /\ distancePenalty' = distancePenalty]_vars

\* a two-qubit gate resolved by at least one swap has been emitted
C2_Witness ==
  /\ pc = "done"
  /\ \E k \in 2..Len(steps) :
       /\ IsNativeTwoQubit(steps[k])
       /\ steps[k - 1].inserted
       /\ isConnected(hardware.graph, steps[k].physical[1], steps[k].physical[2])
  /\ distancePenalty = 0

\* C3: distancePenalty is the sum over the two-qubit gates of
\* distance(p1, p2) - 1 for the physical qubits recorded in the gate's Native
\* step (0 for an adjacent gate, the residual distance minus one after
\* exhaustion).
C3_PenaltyIsSumOfResiduals ==
  InReplay =>
    /\ distancePenalty = PenaltySum(steps)
    /\ (pc = "done" => result.distancePenalty = PenaltySum(result.steps))

\* a gate emitted after exhaustion has left a residual in the sum
C3_Witness ==
  /\ pc = "done"
  /\ result.distancePenalty > 0
  /\ result.distancePenalty < Infinity

\* C4: insertedSwaps is the number of Swap steps (inserted = true) and depth
\* is the number of steps, i.e. the number of gates plus insertedSwaps.
C4_CountersMatchSteps ==
  InReplay =>
    /\ insertedSwaps = CountSwaps(steps)
    /\ depth = Len(steps)
    /\ (pc = "done" =>
          /\ result.insertedSwaps = CountSwaps(result.steps)
          /\ result.depth = Len(result.steps)
          /\ result.depth = Len(circuit.gates) + result.insertedSwaps)

C4_Witness ==
  /\ pc = "done"
  /\ result.insertedSwaps >= 2
  /\ Len(circuit.gates) = 2

\* step k, a Swap step, is one transposition of the layout before it
IsTransposition(k) ==
  LET prev == Before(k)
      st == steps[k]
      a == st.logical[1]
      b == st.logical[2]
  IN /\ Cardinality({i \in DOMAIN prev : st.layout[i] # prev[i]}) = 2
     /\ a \in DOMAIN prev /\ b \in DOMAIN prev
     /\ prev[a] = st.physical[1] /\ prev[b] = st.physical[2]
     /\ st.layout[a] = st.physical[2] /\ st.layout[b] = st.physical[1]

\* C5: a Swap step changes the layout by exactly one transposition: its
\* snapshot differs from the previous one in exactly two logical entries,
\* which exchange the two physical ids of the step's physical pair, and its
\* logical pair names the occupants of those physical ids before the swap.
C5_SwapIsTransposition ==
  InReplay => \A k \in 1..Len(steps) : steps[k].inserted => IsTransposition(k)

\* the Native steps so far are the first gateIdx gates of the circuit
GatesInOrder ==
  /\ Len(Natives) = gateIdx
  /\ \A j \in 1..Len(Natives) :
       /\ Natives[j].type = circuit.gates[j].type
       /\ Natives[j].logical = circuit.gates[j].qubits

\* C6: the Native steps, in order, are the circuit's gates in circuit order
\* (same tag, same logical operands); a step is only ever appended, a Swap
\* step while its gate is still pending and the Native step when the replay
\* moves to the next gate; after the last gate's Native step the replay
\* returns and nothing changes any more.
C6_GatesInCircuitOrder ==
  /\ [](InReplay => GatesInOrder)
  /\ [](pc = "done" => (/\ gateIdx = Len(circuit.gates)
                        /\ result.steps = steps
                        /\ (steps # <<>> => ~steps[Len(steps)].inserted)))
  /\ [][/\ (InReplay /\ steps' # steps) =>
             (/\ Len(steps') = Len(steps) + 1
              /\ SubSeq(steps', 1, Len(steps)) = steps
              /\ (steps'[Len(steps')].inserted <=> (gateIdx' = gateIdx))
              /\ gateIdx' \in {gateIdx, gateIdx + 1})
         /\ (pc = "done" => UNCHANGED vars)]_vars

C6_Witness ==
  /\ pc = "done"
  /\ Len(circuit.gates) = 2
  /\ circuit.gates[1] # circuit.gates[2]
  /\ Len(steps) >= 4
  /\ steps[1].inserted

\* C7: GreedyMapper on a connected topology, for a two-qubit gate whose images
\* are at distance d >= 2 when the gate is reached: every swap is the first
\* edge of getShortestPath(p1, p2), each swap lowers the distance of the
\* images by exactly 1, exactly d - 1 swaps precede the Native step, and the
\* Native step is adjacent with penalty 0.
C7_GreedyWalksShortestPath ==
  /\ [][(AtGate /\ mapper = "greedy" /\ TwoQubit /\ steps' # steps /\ gateIdx' = gateIdx
         /\ BfsDistance(hardware.graph, PhysC, PhysT) < Infinity) =>
          /\ steps'[Len(steps')].physical = SubSeq(GreedyPath, 1, 2)
          /\ BfsDistance(hardware.graph, PhysC', PhysT')
               = BfsDistance(hardware.graph, PhysC, PhysT) - 1]_vars
  /\ []((InReplay /\ mapper = "greedy") =>
          \A k \in 1..Len(steps) :
            LET first == CHOOSE j \in 1..k : /\ \A i \in j..(k - 1) : steps[i].inserted
                                             /\ (j > 1 => ~steps[j - 1].inserted)
                start == Before(first)
                d == BfsDistance(hardware.graph, start[steps[k].logical[1]],
                                 start[steps[k].logical[2]])
            IN (IsNativeTwoQubit(steps[k]) /\ d >= 2 /\ d < Infinity) =>
                 /\ k - first = d - 1
                 /\ isConnected(hardware.graph, steps[k].physical[1], steps[k].physical[2]))

\* nQubits >= 1 and every gate operand in [0, nQubits)
ValidCircuit(c) ==
  /\ c.nQubits >= 1
  /\ \A i \in 1..Len(c.gates) :
       \A j \in 1..Len(c.gates[i].qubits) :
         c.gates[i].qubits[j] \in 0..(c.nQubits - 1)

\* C8: invalid circuit input fails fast: no circuit object, and no
\* MappingResult, ever exists for nQubits < 1 or for a gate operand outside
\* [0, nQubits).
C8_InvalidCircuitFailsFast ==
  pc \in {"circuit", "hardware", "map", "done"} => ValidCircuit(circuit)

\* the number of device qubits the constructor was asked for
RequestedQubits(h) ==
  IF h.type = "grid2d" THEN h.params.rows * h.params.cols ELSE h.params.qubits

\* C9: invalid topology input fails fast: no topology object ever exists for
\* an unrecognized shape tag or for zero device qubits; the graph of every
\* topology object has exactly the vertices that were asked for.
C9_InvalidTopologyFailsFast ==
  pc \in {"hardware", "map", "done"} =>
    /\ hardware.type \in {"lnn", "grid2d", "star"}
    /\ RequestedQubits(hardware) >= 1
    /\ DOMAIN hardware.graph = 0..(RequestedQubits(hardware) - 1)

\* C10: boundary conditions are degraded results, never exceptions: map()
\* never throws, and when it has returned, a two-qubit gate whose Native step
\* is not adjacent (an unreachable pair, an exhausted path, no candidate
\* edge, the cursor past the chromosome's end) shows as a nonzero
\* distancePenalty.
C10_BoundaryIsDegradedResult ==
  /\ pc # "threw"
  /\ (pc = "done" =>
        \A k \in 1..Len(result.steps) :
          (/\ IsNativeTwoQubit(result.steps[k])
           /\ ~isConnected(hardware.graph, result.steps[k].physical[1],
                           result.steps[k].physical[2]))
            => result.distancePenalty # 0)

\* C11: the cursor of applyChromosome is shared by all gates of one replay:
\* it starts at 0, never decreases and is never reset between gates; it
\* advances, by one, only in an iteration of the swap loop of a two-qubit
\* gate that is not adjacent; once it has reached chromosome.length, a
\* two-qubit gate that is not adjacent is emitted as it is: the next step is
\* its Native step, no swap is inserted, and distancePenalty grows by the
\* residual distance minus one.
C11_CursorIsSharedAndMonotone ==
  [][/\ (pc = "hardware" /\ pc' = "map" /\ mapper' = "genetic") => swapIndex' = 0
     /\ (pc = "map" /\ mapper = "genetic") =>
          /\ swapIndex' >= swapIndex
          /\ swapIndex' # swapIndex =>
               /\ AtGate /\ TwoQubit /\ ~Adjacent
               /\ swapIndex < chromosomeLength
               /\ swapIndex' = swapIndex + 1
               /\ gateIdx' = gateIdx
          /\ (AtGate /\ TwoQubit /\ ~Adjacent /\ swapIndex < chromosomeLength) =>
               (swapIndex' = swapIndex + 1 /\ gateIdx' = gateIdx)
          /\ (AtGate /\ TwoQubit /\ ~Adjacent /\ swapIndex >= chromosomeLength) =>
               /\ steps' = Append(steps, NativeStep)
               /\ ~steps'[Len(steps')].inserted
               /\ insertedSwaps' = insertedSwaps
               /\ layout' = layout
               /\ gateIdx' = gateIdx + 1
               /\ distancePenalty' =
                    Plus(distancePenalty,
                         MinusOne(distance(hardware.graph, NoCache, PhysC, PhysT)))
               /\ distancePenalty' > distancePenalty]_vars

\* a short chromosome was used up by the first gate, and the second gate,
\* not adjacent when reached, has been emitted unresolved
C11_Witness ==
  /\ mapper = "genetic" /\ pc = "map"
  /\ chromosomeLength >= 1 /\ swapIndex = chromosomeLength
  /\ insertedSwaps >= 1
  /\ gateIdx = 2 /\ Len(steps) >= 3
  /\ ~steps[Len(steps)].inserted /\ ~steps[Len(steps) - 1].inserted
  /\ IsNativeTwoQubit(steps[Len(steps)])
  /\ ~isConnected(hardware.graph, steps[Len(steps)].physical[1],
                  steps[Len(steps)].physical[2])
  /\ distancePenalty >= 1

\* C12: in GeneticSwapOptimizer.map the best-ever fitness never decreases
\* from one generation to the next, and the best-ever chromosome changes only
\* when the fitness strictly improves; the MappingResult returned is the
\* replay of the best-ever chromosome: its recomputed fitness
\* -(10*insertedSwaps + depth + 3*distancePenalty) is the best-ever fitness
\* and is at least the fitness of every chromosome evaluated in any
\* generation (the fitnessCache holds them all).
C12_BestEverIsKeptAndReturned ==
  [][/\ bestEverFitness' >= bestEverFitness
     /\ (pc = "evolve" /\ bestEver' # bestEver) => bestEverFitness' > bestEverFitness
     /\ (pc = "evolve" /\ pc' \in {"evolve", "breed"}) =>
          \A i \in 1..Len(evaluated') : evaluated'[i].fitness <= bestEverFitness'
     /\ pc' = "done" =>
          /\ bestEver' # <<>>
          /\ result' = [r \in {"steps", "insertedSwaps", "depth", "distancePenalty",
                                "finalLayout"} |->
                          IF r = "finalLayout"
                            THEN applyChromosome(circuit, hardware.graph, NoCache,
                                                 bestEver'[1]).layout
                            ELSE applyChromosome(circuit, hardware.graph, NoCache,
                                                 bestEver'[1])[r]]
          /\ Fitness(result') = bestEverFitness'
          /\ \A k \in DOMAIN fitnessCache' : fitnessCache'[k] <= Fitness(result')]_vars

\* map() has returned after a generation whose best chromosome was worse
\* than the best ever
C12_Witness ==
  /\ pc = "done" /\ mapper = "genetic" /\ gen >= 1
  /\ evaluated # <<>> /\ evaluated[1].fitness < bestEverFitness
  /\ Fitness(result) = bestEverFitness

\* C13: GeneticSwapOptimizer configured with generations = 0 or with
\* populationSize = 1 does not throw, and the MappingResult it returns is
\* valid: its counters match its steps and finalLayout is a permutation of
\* 0..nQubits-1.
C13_DegenerateConfigReturns ==
  /\ pc # "threw"
  /\ (pc = "done" =>
        /\ result.insertedSwaps = CountSwaps(result.steps)
        /\ result.depth = Len(result.steps)
        /\ Len(Natives) = Len(circuit.gates)
        /\ IsPermutation(Snapshot(result.finalLayout)))

\* the best fitness of the generation just evaluated
BestOfGeneration(ev) ==
  CHOOSE f \in {ev[i].fitness : i \in 1..Len(ev)} :
    \A i \in 1..Len(ev) : ev[i].fitness <= f

\* C14: map() is bounded by the generation cap and the plateau stop: a
\* generation is evaluated only while gen < generations, and gen never
\* exceeds generations; the generation just evaluated resets plateauCounter
\* to 0 when its best fitness strictly improves the best-ever fitness and adds
\* 1 to it otherwise; the loop is left in the first generation in which the
\* counter reaches plateauThreshold, and goes on otherwise; so the loop is
\* always left.
C14_GenerationCapAndPlateau ==
  /\ [][/\ (pc' \in {"evolve", "breed"}) => gen' <= config'.generations
        /\ (pc \in {"evolve", "breed"} /\ pc' \in {"evolve", "breed"}) =>
             gen' \in {gen, gen + 1}
        /\ (pc = "evolve" /\ pc' \in {"evolve", "breed"}) =>
             /\ gen < config.generations
             /\ plateauCounter < config.plateauThreshold
             /\ IF BestOfGeneration(evaluated') > bestEverFitness
                  THEN plateauCounter' = 0
                  ELSE plateauCounter' = plateauCounter + 1
             /\ IF plateauCounter' >= config.plateauThreshold
                  THEN pc' = "evolve" /\ gen' = gen
                  ELSE pc' = "breed" \/ gen' = gen + 1
        /\ (pc = "evolve" /\ pc' = "map") =>
             \/ gen = config.generations
             \/ plateauCounter = config.plateauThreshold]_vars
  /\ (pc = "evolve" ~> pc \in {"map", "threw"})

\* map() has returned after the plateau stop ended the loop below the cap,
\* the counter having been reset by the first generation
C14_Witness ==
  /\ pc = "done" /\ mapper = "genetic"
  /\ plateauCounter = config.plateauThreshold
  /\ gen >= 1 /\ gen < config.generations
  /\ bestEver # <<>>

\* every vertex of the device is reachable from vertex 0, and every logical
\* qubit of the circuit has a vertex
ConnectedDevice ==
  /\ 0..(circuit.nQubits - 1) \subseteq DOMAIN hardware.graph
  /\ \A v \in DOMAIN hardware.graph : BfsDistance(hardware.graph, 0, v) # Infinity

\* some two-qubit gate of the circuit has operands that are not adjacent
\* under the identity layout
HasDistantGate ==
  \E i \in 1..Len(circuit.gates) :
    /\ Len(circuit.gates[i].qubits) = 2
    /\ ~isConnected(hardware.graph, circuit.gates[i].qubits[1], circuit.gates[i].qubits[2])

\* C15: on a connected device, for a circuit with a two-qubit gate whose
\* operands are not adjacent under the identity layout (Scenario B: star(4),
\* gate (1,2)), the MappingResult of every strategy has insertedSwaps >= 1.
C15_DistantGateForcesSwap ==
  (pc = "done" /\ ConnectedDevice /\ HasDistantGate) => result.insertedSwaps >= 1

\* the vertices within d hops of a
RECURSIVE ReachWithin(_, _, _)
ReachWithin(g, a, d) ==
  IF d = 0 THEN {a}
  ELSE Strict(LAMBDA r : r \cup {v \in DOMAIN g : \E u \in r : isConnected(g, u, v)},
              ReachWithin(g, a, d - 1))

\* the least number of hops from a to b, Infinity when there is no path
MinHops(g, a, b) ==
  LET ds == {d \in 0..Cardinality(DOMAIN g) : b \in ReachWithin(g, a, d)}
  IN IF ds = {} THEN Infinity ELSE CHOOSE d \in ds : \A e \in ds : d <= e

\* p is a path of the device from a to b
IsPath(g, p, a, b) ==
  /\ Len(p) >= 1 /\ p[1] = a /\ p[Len(p)] = b
  /\ \A i \in 1..(Len(p) - 1) : isConnected(g, p[i], p[i + 1])

\* what a fresh BFS and getShortestPath give on device g, for all its qubits
\* a, b: distance 0 from a to a, the same distance both ways, the least
\* number of hops, and for a reachable pair a path of the device from a to b
\* of distance + 1 vertices
ShortestPathFacts(g) ==
  \A a \in DOMAIN g : \A b \in DOMAIN g :
    \E d \in {BfsDistance(g, a, b)} : \E p \in {getShortestPath(g, a, b)} :
      /\ BfsDistance(g, a, a) = 0
      /\ d = BfsDistance(g, b, a)
      /\ d = MinHops(g, a, b)
      /\ d # Infinity => (IsPath(g, p, a, b) /\ Len(p) = d + 1)

\* C16: on every device of the three shapes and for all its qubits a, b:
\* distance(a, a) = 0, distance(a, b) = distance(b, a), distance(a, b) is
\* the least number of hops from a to b, and for a reachable pair
\* getShortestPath(a, b) is a path of the device from a to b of
\* distance(a, b) + 1 vertices.  A device starts with an empty cache, where
\* distance is the fresh BFS the facts are stated for; whatever the cache
\* holds later, distance(a, b) is still what that BFS gives.
C16_DistanceIsShortestPathLength ==
  pc = "hardware" =>
    /\ distanceCache = NoCache => ShortestPathFacts(hardware.graph)
    /\ \A a \in DOMAIN hardware.graph : \A b \in DOMAIN hardware.graph :
         /\ distance(hardware.graph, distanceCache, a, b) = BfsDistance(hardware.graph, a, b)
         /\ distance(hardware.graph, distanceCache, b, a) = BfsDistance(hardware.graph, a, b)

\* a grid device whose cache holds the distance of a pair two or more hops
\* apart
C16_Witness ==
  /\ pc = "hardware" /\ hardware.type = "grid2d"
  /\ \E k \in DOMAIN distanceCache :
       /\ k[1] \in DOMAIN hardware.graph /\ k[2] \in DOMAIN hardware.graph
       /\ distanceCache[k] >= 2 /\ distanceCache[k] # Infinity

\* C17: for two ids with no path from one to the other (one of them may be
\* no vertex of the device), distance returns Infinity and getShortestPath
\* the empty sequence, in either order of the operands; after the call the
\* same pair, in either order, still gets Infinity.
C17_NoPathIsInfinityAndEmptyPath ==
  pc = "hardware" =>
    \A a \in QubitIds :
     \E reach \in {ReachWithin(hardware.graph, a, Cardinality(DOMAIN hardware.graph))} :
      \A b \in QubitIds \ reach :
        \E after \in {CacheAfter(hardware.graph, distanceCache, a, b)} :
          /\ distance(hardware.graph, distanceCache, a, b) = Infinity
          /\ getShortestPath(hardware.graph, a, b) = <<>>
          /\ distance(hardware.graph, after, a, b) = Infinity
          /\ distance(hardware.graph, after, b, a) = Infinity

\* a distance call with an id that is no vertex has left the sentinel in the
\* cache of a device with vertices
C17_Witness ==
  /\ pc = "hardware" /\ hardware.graph # EmptyGraph
  /\ \E k \in DOMAIN distanceCache :
       /\ k[1] # k[2]
       /\ distanceCache[k] = Infinity
       /\ distance(hardware.graph, distanceCache, k[2], k[1]) = Infinity

Abs(x) == IF x < 0 THEN 0 - x ELSE x

\* the edges the shape of device h stands for, as a relation on ids
ShapeEdge(h, a, b) ==
  LET n == OrDefault(h.params.qubits, DefaultQubits)
      cols == OrDefault(h.params.cols, DefaultGridDim)
  IN IF h.type = "lnn" THEN Abs(a - b) = 1
     ELSE IF h.type = "star" THEN a # b /\ (a = 0 \/ b = 0)
     ELSE \/ (a \div cols) = (b \div cols) /\ Abs((a % cols) - (b % cols)) = 1
          \/ (a % cols) = (b % cols) /\ Abs((a \div cols) - (b \div cols)) = 1

\* the number of vertices the shape of device h stands for
ShapeSize(h) ==
  IF h.type = "grid2d"
    THEN OrDefault(h.params.rows, DefaultGridDim) * OrDefault(h.params.cols, DefaultGridDim)
  ELSE OrDefault(h.params.qubits, DefaultQubits)

\* C18: the graph built for each shape is an undirected simple graph on the
\* ids 0..n-1: no adjacency list repeats an entry or names its own vertex,
\* isConnected(a, b) holds iff b is in a's list, it is symmetric and
\* irreflexive, and the edges are exactly those of the shape (lnn: i -- i+1;
\* grid2d: the 4-neighbour grid with id = row*cols + col, the end of a row
\* not joined to the start of the next; star: 0 joined to every other
\* qubit); no later step changes the graph.
C18_GraphIsTheShape ==
  /\ [](pc = "hardware" =>
          LET g == hardware.graph IN
          /\ DOMAIN g = 0..(ShapeSize(hardware) - 1)
          /\ \A a \in DOMAIN g :
               /\ \A i \in 1..Len(g[a]) : \A j \in 1..Len(g[a]) : g[a][i] = g[a][j] => i = j
               /\ ~isConnected(g, a, a)
               /\ \A b \in DOMAIN g \cup {Cardinality(DOMAIN g)} :
                    /\ isConnected(g, a, b) <=> (\E i \in 1..Len(g[a]) : g[a][i] = b)
                    /\ isConnected(g, a, b) <=> isConnected(g, b, a)
                    /\ isConnected(g, a, b) <=> (b \in DOMAIN g /\ ShapeEdge(hardware, a, b)))
  /\ [][pc = "hardware" => hardware' = hardware]_vars

\* a grid of two or more rows and columns that has answered a query
C18_Witness ==
  /\ pc = "hardware" /\ hardware.type = "grid2d"
  /\ OrDefault(hardware.params.rows, DefaultGridDim) >= 2
  /\ OrDefault(hardware.params.cols, DefaultGridDim) >= 2
  /\ distanceCache # NoCache

\* C19: evaluate(result) is alpha*insertedSwaps + beta*depth +
\* gamma*distancePenalty for the nonnegative weights (alpha, beta, gamma) the
\* model was constructed with, a weight of 0 included, and for every
\* nonnegative counter triple.
C19_CostIsWeightedSum ==
  cost # Undefined =>
    cost = costConfig.alpha * costResult.insertedSwaps
             + costConfig.beta * costResult.depth
             + costConfig.gamma * costResult.distancePenalty

\* component-wise sum and multiple of counter triples
AddCounters(r1, r2) ==
  [insertedSwaps |-> r1.insertedSwaps + r2.insertedSwaps, depth |-> r1.depth + r2.depth,
   distancePenalty |-> r1.distancePenalty + r2.distancePenalty]

ScaleCounters(k, r) ==
  [insertedSwaps |-> k * r.insertedSwaps, depth |-> k * r.depth,
   distancePenalty |-> k * r.distancePenalty]

\* C20: for the weights of a constructed model, evaluate is additive and
\* linear over nonnegative counter triples: evaluate(r1 + r2) = evaluate(r1)
\* + evaluate(r2) and evaluate(k * r1) = k * evaluate(r1); evaluate and
\* explain change neither the weights nor the result they are given.
C20_CostIsLinear ==
  /\ [](costModel # <<>> =>
          \A r1 \in CounterInputs :
            /\ \A r2 \in CounterInputs :
                 evaluate(costModel, AddCounters(r1, r2))
                   = evaluate(costModel, r1) + evaluate(costModel, r2)
            /\ \A k \in 0..MaxCounter :
                 evaluate(costModel, ScaleCounters(k, r1)) = k * evaluate(costModel, r1))
  /\ [][costModel # <<>> =>
          /\ costModel' = costModel
          /\ cost' # cost => (costResult' \in CounterInputs
                                /\ cost' = evaluate(costModel, costResult'))
          /\ explanation' # explanation => UNCHANGED <<costResult, cost>>]_vars

\* a constructed model has priced a result with all three counters positive
\* and has explained itself
C20_Witness ==
  /\ costModel # <<>> /\ explanation # <<>>
  /\ cost # Undefined /\ cost > 0
  /\ costResult.insertedSwaps > 0 /\ costResult.depth > 0 /\ costResult.distancePenalty > 0

\* the gate indices of the window [from, from + w) that hold a two-qubit gate
WindowIndices(from, w) ==
  {i \in from..(Min(from + w, Len(circuit.gates)) - 1) : Len(circuit.gates[i + 1].qubits) = 2}

\* C21: getUpcomingInteractions(fromIndex, windowSize) returns, in circuit
\* order, exactly one entry for every two-qubit gate whose index i lies in
\* [fromIndex, min(fromIndex + windowSize, number of gates)) and no other
\* entry; each entry carries that gate's qubits, distance = i - fromIndex and
\* weight = 1/(1 + distance) (in sixths: weight * (1 + distance) = 6); the
\* call changes neither the circuit nor the graph.
C21_UpcomingIsTheWindow ==
  /\ [](upcoming # <<>> =>
          LET from == upcoming.currentGateIdx
              r == upcoming.result
          IN /\ {from + r[j].distance : j \in 1..Len(r)}
                  = WindowIndices(from, upcoming.windowSize)
             /\ \A j \in 1..Len(r) :
                  /\ r[j].distance >= 0
                  /\ \A k \in 1..Len(r) : j < k => r[j].distance < r[k].distance
                  /\ r[j].qubits = circuit.gates[from + r[j].distance + 1].qubits
                  /\ r[j].weight * (1 + r[j].distance) = ScaledWeight(0))
  /\ [][upcoming' # upcoming =>
          /\ circuit' = circuit
          /\ interactionGraph' = interactionGraph
          /\ interactionGraph' = <<buildInteractionGraph(circuit')>>]_vars

\* a window that starts at a one-qubit gate, which it leaves out, and holds
\* the two-qubit gate after it at distance 1
C21_Witness ==
  /\ upcoming # <<>> /\ upcoming.currentGateIdx = 0 /\ upcoming.windowSize >= 2
  /\ Len(circuit.gates) = 2 /\ Len(circuit.gates[1].qubits) = 1
  /\ Len(upcoming.result) = 1
  /\ upcoming.result[1].distance = 1
  /\ upcoming.result[1].qubits = circuit.gates[2].qubits

\* C22: the layout snapshot of an emitted step is an independent copy: no
\* later swap of the same replay changes it, so step k's snapshot stays the
\* layout as it was right after step k, and the last step's snapshot is
\* finalLayout.
C22_SnapshotsAreIndependent ==
  /\ [][pc = "map" =>
          /\ Len(steps') >= Len(steps)
          /\ \A k \in 1..Len(steps) : steps'[k].layout = steps[k].layout
          /\ steps' # steps => steps'[Len(steps')].layout = Snapshot(layout')]_vars
  /\ []((pc = "done" /\ steps # <<>>) =>
          /\ result.steps = steps
          /\ steps[Len(steps)].layout = Snapshot(result.finalLayout))

\* a replay that swapped twice: the two Swap steps and the final layout show
\* three different layouts
C22_Witness ==
  /\ pc = "done"
  /\ \E j \in 1..Len(steps) : \E k \in (j + 1)..Len(steps) :
       /\ steps[j].inserted /\ steps[k].inserted
       /\ steps[j].layout # steps[k].layout
       /\ steps[j].layout # Snapshot(result.finalLayout)
       /\ steps[j].layout # Snapshot(IdentityLayout(circuit.nQubits))
       /\ steps[k].layout # Snapshot(IdentityLayout(circuit.nQubits))

\* C23: the strategies are pure functions of their inputs: a run of
\* GreedyMapper.map, LookAheadMapper.map or applyChromosome returns what every
\* earlier run of the same strategy (and the same chromosome) returned on
\* the same circuit and topology object, whatever other runs came between
\* and whatever they left in the distance cache; no run changes the
\* circuit's gate list or the topology's adjacency lists.
C23_StrategiesArePure ==
  /\ [](pc = "done" =>
          \A e \in earlier :
            (/\ e.mapper = mapper
             /\ mapper = "genetic" =>
                  (e.chromosome = chromosome /\ e.chromosomeLength = chromosomeLength))
              => e.result = result)
  /\ [][(pc \in {"hardware", "map", "done"}) =>
          /\ circuit' = circuit
          /\ hardware' = hardware]_vars

\* a strategy has run a second time, on a cache that its first run and a run
\* of another strategy have filled, and has inserted a swap
C23_Witness ==
  /\ pc = "done" /\ result.insertedSwaps >= 1
  /\ distanceCache # NoCache
  /\ \E e \in earlier : e.mapper = mapper /\ e.result = result
  /\ \E e \in earlier : e.mapper # mapper /\ e.result # result

\* C24: whenever results are set, they hold an entry named 'Genetic
\* Algorithm' next to the Greedy and the Look-Ahead entries, so that with the
\* Genetic mapper selected currentResult is defined - on every path of
\* runOptimization: worker reply, worker timeout, worker creation failure,
\* main thread.
C24_ResultsHoldGeneticEntry ==
  ui.results # <<>> =>
    /\ \A name \in {"Greedy Baseline", "Look-Ahead (k=3)", "Genetic Algorithm"} :
         \E i \in 1..Len(ui.results) : ui.results[i].mapper = name
    /\ ui.activeMapper = "genetic" => currentResult # <<>>

\* the gate the replay is at needs no routing
NoRouting == AtGate /\ (~TwoQubit \/ Adjacent)

\* C25: a gate that needs no routing (a one-qubit gate, or a two-qubit gate
\* whose physical images are adjacent) leaves the routing state untouched:
\* the strategy emits exactly one Native step whose physical qubits are the
\* current images layout[q], inserts no Swap step and leaves layout,
\* insertedSwaps and distancePenalty unchanged; the layout snapshot of a
\* Native step is always the snapshot of the step before it (the identity
\* layout for the first step).
C25_NoRoutingLeavesStateUntouched ==
  /\ [][NoRouting =>
          /\ Len(steps') = Len(steps) + 1
          /\ SubSeq(steps', 1, Len(steps)) = steps
          /\ ~steps'[Len(steps')].inserted
          /\ steps'[Len(steps')].type = Gate.type
          /\ steps'[Len(steps')].logical = Gate.qubits
          /\ steps'[Len(steps')].physical
               = [i \in 1..Len(Gate.qubits) |-> At(layout, Gate.qubits[i])]
          /\ gateIdx' = gateIdx + 1
          /\ layout' = layout
          /\ insertedSwaps' = insertedSwaps
          /\ distancePenalty' = distancePenalty]_vars
  /\ [](InReplay => \A k \in 1..Len(steps) : ~steps[k].inserted => steps[k].layout = Before(k))

\* after a swap has permuted the layout, a later gate needed no routing and
\* was emitted on the images of its qubits
C25_Witness ==
  /\ pc = "done" /\ insertedSwaps >= 1 /\ distancePenalty = 0
  /\ \E k \in 2..Len(steps) :
       /\ ~steps[k].inserted /\ ~steps[k - 1].inserted
       /\ steps[k].physical # steps[k].logical

\* C26: every step of every strategy's result carries the depth index of its
\* 0-based place in the step list, so the indices grow by 1 from step to
\* step, and inserted = true holds for a step iff it is a Swap step.
C26_DepthIsPositionInsertedIsSwap ==
  InReplay =>
    /\ \A k \in 1..Len(steps) :
         /\ steps[k].depth = k - 1
         /\ k > 1 => steps[k].depth = steps[k - 1].depth + 1
         /\ steps[k].inserted <=> steps[k].type = "swap"
    /\ (pc = "done" => result.steps = steps)

\* a result in which Swap steps and Native steps alternate
C26_Witness ==
  /\ pc = "done" /\ Len(result.steps) = 4
  /\ result.steps[1].inserted /\ ~result.steps[2].inserted
  /\ result.steps[3].inserted /\ ~result.steps[4].inserted
  /\ result.steps[4].depth = 3

\* the layout with the occupants of the physical qubits u and v exchanged
SimLayout(l, u, v) ==
  [q \in DOMAIN l |-> IF l[q] = u THEN v ELSE IF l[q] = v THEN u ELSE l[q]]

\* -sum(weight * distance(sim[q1], sim[q2])) over the upcoming interactions,
\* the distances being fresh hop counts
RECURSIVE WindowScore(_, _)
WindowScore(sim, up) ==
  IF up = <<>> THEN 0
  ELSE Strict(LAMBDA rest :
                ScoreMinus(rest,
                           BfsDistance(hardware.graph, At(sim, Head(up).qubits[1]),
                                       At(sim, Head(up).qubits[2])),
                           Head(up).weight),
              WindowScore(sim, Tail(up)))

EdgeScore(e) ==
  WindowScore(SimLayout(Snapshot(layout), e[1], e[2]),
              getUpcomingInteractions(circuit, gateIdx, LookAheadWindow))

\* C27: every swap LookAheadMapper applies for an unresolved gate at index g
\* is an edge (u, v), u < v, of the hardware graph whose score, computed on a
\* scratch copy of the layout with the occupants of u and v exchanged, is
\* maximal among all hardware edges; among edges of equal maximal score the
\* first in the graph's edge-enumeration order is chosen; scoring changes
\* nothing of the real layout, which the swap then changes by that exchange.
C27_LookAheadPicksBestEdge ==
  [][(AtGate /\ mapper = "lookahead" /\ steps' # steps /\ gateIdx' = gateIdx) =>
       \E edges \in {getValidSwaps(hardware.graph)} :
         \E e \in {steps'[Len(steps')].physical} :
           /\ e[1] < e[2]
           /\ isConnected(hardware.graph, e[1], e[2])
           /\ \E i \in 1..Len(edges) :
                /\ edges[i] = e
                /\ \A j \in 1..Len(edges) : EdgeScore(edges[j]) <= EdgeScore(e)
                /\ \A j \in 1..(i - 1) : EdgeScore(edges[j]) < EdgeScore(e)
           /\ Snapshot(layout') = SimLayout(Snapshot(layout), e[1], e[2])]_vars

\* ---------------------------------------------------------------- C28
\* the device's edge set: the pairs (a, b), a < b, of connected qubits
EdgeSet(g) == {e \in (DOMAIN g) \X (DOMAIN g) : e[1] < e[2] /\ isConnected(g, e[1], e[2])}

IsChromosome(chrom) ==
  /\ Len(chrom) \in 1..config.maxSwapsPerChromosome
  /\ \A i \in 1..Len(chrom) : chrom[i] \in EdgeSet(hardware.graph)

InMap == mapper = "genetic" /\ pc \in {"evolve", "breed"}

\* C28: while GeneticSwapOptimizer.map() runs, every chromosome of the
\* population, of the evaluated generation and of the generation being built
\* (elites, crossover children, mutated children) has between 1 and
\* maxSwapsPerChromosome genes, and every gene is an edge (a, b), a < b, of
\* the device
C28_ChromosomesAreEdgeSequences ==
  InMap =>
    /\ \A i \in 1..Len(population) : IsChromosome(population[i])
    /\ \A i \in 1..Len(evaluated) : IsChromosome(evaluated[i].chromosome)
    /\ \A i \in 1..Len(newPopulation) : IsChromosome(newPopulation[i])

\* ---------------------------------------------------------------- C29
\* the fitness of a chromosome, computed afresh with empty caches
FreshFitness(chrom) == evaluateFitness(circuit, hardware.graph, NoCache, chrom)

\* pop2 begins with the k fittest chromosomes of pop1, fittest first: they
\* sit at k different places f[1..k] of pop1, and no chromosome of pop1 at
\* another place is fitter than any of them
BeginsWithFittest(pop2, pop1, k) ==
  \E f \in [1..k -> 1..Len(pop1)] :
    /\ \A i, j \in 1..k : i # j => f[i] # f[j]
    /\ \A i \in 1..k : pop2[i] = pop1[f[i]]
    /\ \A i, j \in 1..k : i < j => FreshFitness(pop1[f[i]]) >= FreshFitness(pop1[f[j]])
    /\ \A i \in 1..k : \A j \in 1..Len(pop1) :
         (\A h \in 1..k : f[h] # j) => FreshFitness(pop1[f[i]]) >= FreshFitness(pop1[j])

\* C29: the population of every generation has exactly populationSize
\* chromosomes, and when map() passes to the next generation, the new
\* population begins with the floor(populationSize * eliteRatio) fittest
\* chromosomes of the current one, gene for gene, and the rest are offspring
\* of the current generation
C29_ElitesCarriedOverPopulationFull ==
  [][(mapper = "genetic" /\ pc \in {"evolve", "breed"} /\ gen' = gen + 1) =>
       /\ Len(population) = config.populationSize
       /\ Len(population') = config.populationSize
       /\ BeginsWithFittest(population', population, Min(EliteCount, config.populationSize))
       /\ \A i \in (EliteCount + 1)..Len(population') :
            population'[i] \in Offspring(evaluated', config, hardware.graph)]_vars

\* a generation that began with the fitter of two chromosomes of different
\* fitness, followed by a child that is neither of them
C29_Witness ==
  /\ mapper = "genetic" /\ pc = "evolve" /\ gen >= 1
  /\ EliteCount = 1
  /\ Len(evaluated) = 2 /\ Len(population) = 2
  /\ evaluated[1].fitness > evaluated[2].fitness
  /\ population[1] = evaluated[1].chromosome
  /\ population[2] \notin {evaluated[1].chromosome, evaluated[2].chromosome}

\* ---------------------------------------------------------------- C30
\* the edge sequences of up to maxLen genes
EdgeSequences(g, maxLen) == UNION {[1..len -> EdgeSet(g)] : len \in 0..maxLen}

\* every chromosome map() holds at the moment
HeldChromosomes ==
  {population[i] : i \in 1..Len(population)}
    \cup {evaluated[i].chromosome : i \in 1..Len(evaluated)}
    \cup {newPopulation[i] : i \in 1..Len(newPopulation)}

\* C30: the fitness cache is transparent. Two different edge sequences never
\* have the same key; every value the cache holds for a chromosome is the
\* fitness evaluateFitness computes afresh for it,
\* -(10 * insertedSwaps + depth + 3 * distancePenalty) of its replay; and
\* every fitness map() works with, read from the cache or not, is the one a
\* run without the cache computes
C30_FitnessCacheIsTransparent ==
  InMap =>
    /\ \A c1, c2 \in EdgeSequences(hardware.graph, config.maxSwapsPerChromosome) :
         chromosomeKey(c1) = chromosomeKey(c2) => c1 = c2
    /\ \A chrom \in HeldChromosomes :
         (~KeyThrows(chrom) /\ chromosomeKey(chrom) \in DOMAIN fitnessCache) =>
           \E r \in {applyChromosome(circuit, hardware.graph, NoCache, chrom)} :
             fitnessCache[chromosomeKey(chrom)] =
               (IF r.distancePenalty = Infinity THEN NegInfinity
                ELSE 0 - (10 * r.insertedSwaps + r.depth + 3 * r.distancePenalty))
    /\ \A i \in 1..Len(evaluated) :
         evaluated[i].fitness = FreshFitness(evaluated[i].chromosome)

\* the second generation is evaluated and at least one fitness was read from
\* the cache (it holds fewer keys than chromosomes were evaluated); the
\* generation holds a chromosome of two genes and two different fitnesses
C30_Witness ==
  /\ mapper = "genetic" /\ pc = "breed" /\ gen = 1
  /\ Cardinality(DOMAIN fitnessCache) < (gen + 1) * config.populationSize
  /\ \E i \in 1..Len(evaluated) : Len(evaluated[i].chromosome) = 2
  /\ evaluated[1].fitness > evaluated[2].fitness
  /\ evaluated[2].fitness > NegInfinity

\* ---------------------------------------------------------------- C31
\* C31: the distance memo is transparent. Whatever distance() calls were made
\* before on the topology, in whatever order of the arguments, the value a
\* call returns is the hop count a fresh BFS from q1 to q2 finds on the
\* graph, and every entry of the cache is the hop count of its pair in
\* either order
C31_DistanceMemoIsTransparent ==
  /\ queried.count > 0 =>
       queried.returned = BfsDistance(hardware.graph, queried.q1, queried.q2)
  /\ pc = "hardware" =>
       \A k \in DOMAIN distanceCache :
         /\ distanceCache[k] = BfsDistance(hardware.graph, k[1], k[2])
         /\ distanceCache[k] = BfsDistance(hardware.graph, k[2], k[1])

\* a call answered from the cache, its arguments in descending order, for a
\* pair two or more hops apart, while the cache holds other pairs too
C31_Witness ==
  /\ queried.count >= 2 /\ queried.hit
  /\ queried.q1 > queried.q2
  /\ queried.returned >= 2 /\ queried.returned # Infinity
  /\ Cardinality(DOMAIN distanceCache) >= 2

\* ---------------------------------------------------------------- C32
\* C32: crossover of two non-empty parents p1, p2 cuts at some c with
\* 0 <= c < min(len(p1), len(p2)) and returns p1[0..c) followed by
\* p2[c..len(p2)): a child of exactly len(p2) genes, gene i of p1 before the
\* cut and of p2 from the cut on; both parents are after the call what they
\* were before
C32_CrossoverIsSinglePoint ==
  (bred.op = "crossover" /\ bred.args[1] # <<>> /\ bred.args[2] # <<>>) =>
    \E c \in {bred.draw.point} :
      /\ 0 <= c /\ c < Min(Len(bred.args[1]), Len(bred.args[2]))
      /\ Len(bred.returned) = Len(bred.args[2])
      /\ \A i \in 1..Len(bred.returned) :
           bred.returned[i] = (IF i <= c THEN bred.args[1][i] ELSE bred.args[2][i])
      /\ bred.after = bred.args

\* two parents of two genes each that differ in both places, cut after the
\* first gene: the child is neither parent
C32_Witness ==
  /\ bred.op = "crossover" /\ bred.draw.point = 1
  /\ Len(bred.args[1]) = 2 /\ Len(bred.args[2]) = 2
  /\ bred.args[1][1] # bred.args[2][1] /\ bred.args[1][2] # bred.args[2][2]
  /\ bred.returned \notin {bred.args[1], bred.args[2]}
  /\ bred.returned = <<bred.args[1][1], bred.args[2][2]>>

\* ---------------------------------------------------------------- C33
\* chromosome c without the gene at index idx
WithoutGene(c, idx) == [i \in 1..(Len(c) - 1) |-> IF i <= idx THEN c[i] ELSE c[i + 1]]

\* C33: mutate applies exactly the mutation of the drawn kind, or none. A
\* replace draw puts the drawn gene at the drawn index and keeps every other
\* gene and the length; an append draw adds the drawn gene at the end if the
\* chromosome is under maxSwapsPerChromosome; a delete draw removes the gene
\* at the drawn index if the length is greater than 1; when the guard of the
\* drawn kind does not hold the gene sequence comes back unchanged. The
\* array passed is after the call what it was before
C33_MutateAppliesTheDrawnKind ==
  bred.op = "mutate" =>
    \E c \in {bred.args[1]} : \E r \in {bred.returned} :
      /\ bred.after = bred.args
      /\ bred.draw.kind = "replace" =>
           IF Len(c) > 0
             THEN /\ Len(r) = Len(c)
                  /\ \A i \in 1..Len(c) :
                       r[i] = (IF i = bred.draw.idx + 1 THEN bred.draw.gene ELSE c[i])
             ELSE r = c
      /\ bred.draw.kind = "append" =>
           IF Len(c) < config.maxSwapsPerChromosome
             THEN r = c \o <<bred.draw.gene>>
             ELSE r = c
      /\ bred.draw.kind = "delete" =>
           IF Len(c) > 1 THEN r = WithoutGene(c, bred.draw.idx) ELSE r = c

\* ---------------------------------------------------------------- C34
\* the hop count between the images of the current gate's two qubits
GateDistance == BfsDistance(hardware.graph, PhysC, PhysT)

\* C34: LookAheadMapper.map() terminates. Every step of the replay either
\* passes to the next gate or is a swap for the current gate that brings its
\* two images strictly closer, so the swap loop of a gate makes fewer swaps
\* than the images are hops apart and the forEach ends after the last gate;
\* and the loop is never cut short by the bound on the number of steps:
\* whenever findBestSwap offers a swap for a gate that is not adjacent, the
\* swap is made
C34_LookAheadTerminates ==
  /\ []((AtGate /\ mapper = "lookahead" /\ TwoQubit /\ ~Adjacent /\ BestSwap.swap # <<>>)
          => Len(steps) < MaxSteps)
  /\ [][(mapper = "lookahead" /\ pc = "map" /\ pc' = "map") =>
          \/ gateIdx' = gateIdx + 1
          \/ /\ gateIdx' = gateIdx
             /\ insertedSwaps' = insertedSwaps + 1
             /\ GateDistance' < GateDistance]_vars

\* ---------------------------------------------------------------- C35
\* the device has more physical qubits than the circuit has logical qubits
HasSpareQubits == Cardinality(DOMAIN hardware.graph) > circuit.nQubits

\* the layout array l has exactly nQubits entries, each a physical qubit of
\* the device, no two the same, and nothing was written beside the entries
\* (at the property -1)
KeepsEveryQubit(l) ==
  /\ Elements(l) = 0..(circuit.nQubits - 1)
  /\ At(l, NotFound) = Undefined
  /\ \A i \in Elements(l) : l[i] \in DOMAIN hardware.graph
  /\ \A i, j \in Elements(l) : i # j => l[i] # l[j]

\* C35: on a device with spare physical qubits GreedyMapper and
\* LookAheadMapper never lose a logical qubit: during the replay and in the
\* layout returned, every entry of the layout is a physical qubit of the
\* device, the entries are pairwise distinct and there are exactly nQubits
\* of them, also after a swap on an edge that touches an unoccupied qubit
C35_SpareQubitsLoseNoLogicalQubit ==
  (InReplay /\ mapper \in {"greedy", "lookahead"} /\ HasSpareQubits) =>
    /\ KeepsEveryQubit(layout)
    /\ (pc = "done" => KeepsEveryQubit(result.finalLayout))

\* ---------------------------------------------------------------- C36
\* C36: every Swap step a strategy emits acts on a hardware edge: the two
\* physical qubits it records are two different qubits of the device and
\* isConnected holds for them, in either order
C36_SwapStepsAreHardwareEdges ==
  InReplay =>
    \A k \in 1..Len(steps) :
      steps[k].inserted =>
        \E e \in {steps[k].physical} :
          /\ Len(e) = 2
          /\ e[1] \in DOMAIN hardware.graph /\ e[2] \in DOMAIN hardware.graph
          /\ e[1] # e[2]
          /\ isConnected(hardware.graph, e[1], e[2])
          /\ isConnected(hardware.graph, e[2], e[1])

\* a run that returned with two Swap steps on two different edges
C36_Witness ==
  /\ pc = "done"
  /\ \E j, k \in 1..Len(result.steps) :
       /\ j < k
       /\ result.steps[j].inserted /\ result.steps[k].inserted
       /\ result.steps[j].physical # result.steps[k].physical

\* ---------------------------------------------------------------- C37
\* C37: distancePenalty is never negative, while a strategy replays the
\* circuit and in the result it returns: every two-qubit gate adds at least
\* 0 extra hops
C37_DistancePenaltyIsNeverNegative ==
  InReplay =>
    /\ distancePenalty >= 0
    /\ (pc = "done" => result.distancePenalty >= 0)

\* ---------------------------------------------------------------- C38
\* the for loop of map() has been left, by the generation cap or by the
\* plateau break: `return this.applyChromosome(bestEver)` is next
LoopExited == mapper = "genetic" /\ pc = "evolve" /\ ~InLoop

\* the chromosomes of the generation evaluated last
EvaluatedChromosomes == {evaluated[i].chromosome : i \in 1..Len(evaluated)}

\* C38: when the evolution loop of map() is left, bestEver is not null, and
\* whenever map() assigns bestEver it assigns a chromosome of the generation
\* it has just evaluated: applyChromosome(bestEver) gets a real chromosome
C38_BestEverIsAnEvaluatedChromosome ==
  /\ [](LoopExited => bestEver # <<>>)
  /\ [][(mapper' = "genetic" /\ bestEver' # bestEver) =>
          \/ bestEver' = <<>> /\ evaluated' = <<>> /\ gen' = 0
          \/ bestEver' # <<>> /\ bestEver'[1] \in EvaluatedChromosomes']_vars

====
